---- MODULE Spec2Model ----
(***************************************************************************)
(* Model of the queue inspection engine of kuri-aws-watcher:               *)
(*   src/list_dlq_items.py        FilterCriteria, DLQItemsLister           *)
(*   src/count_sqs_queue_itens.py run(), QueueChangeTracker                *)
(*                                                                         *)
(* Python strings are sequences of one-character strings, so that strip,   *)
(* lower, str() and float() are computed and not assumed.                  *)
(***************************************************************************)
EXTENDS Integers, Sequences, FiniteSets, TLC

(***************************************************************************)
(* Bounds of the model.                                                    *)
(***************************************************************************)
\* largest max_messages handed to get_messages_from_queue when it is
\* exercised alone (above 20, so that three batches of 10, 10, 1 happen)
MaxLimit == 21
\* largest max_messages_per_queue in a multi-queue listing run
MaxListLimit == 2
\* number of configured queues (dlq_list, queue_url_list)
NumQueues == 3
\* largest ApproximateNumberOfMessages the transport reports in run()
MaxCount == 2
\* longest message list handed to apply_filters
MaxMsgs == 3
\* longest filter chain
MaxChain == 2
\* largest integer among the operands of _safe_compare_values
MaxInt == 1
\* number of messages the queue of a count run holds
QueueLen == 25
\* largest max_messages handed to count_messages_by_field
MaxCountLimit == 25
\* largest count a snapshot handed to detect_changes reports
TrackMaxCount == 5
\* number of scripted answers of the transport of a repeated call
ScriptLen == 3
\* messages the DLQs hold together when main() runs in count mode
MainQueueLen == 6
\* latest minute a bound of the time window or a message time falls in
MaxMinute == 2
\* iterations of the polling loop
PollTicks == 8
\* largest count of the snapshots whose events are summed
TeleMaxCount == 3

(***************************************************************************)
(* Program constants.                                                      *)
(***************************************************************************)
\* SQS allows at most 10 messages per receive_message request
SqsBatchMax == 10

Min(a, b) == IF a < b THEN a ELSE b

(***************************************************************************)
(* Python values.  A value is a record [t, s, n]:                          *)
(*   t = "none"                None                                        *)
(*   t = "str",  s = characters                                            *)
(*   t = "int",  n = the integer                                           *)
(*   t = "bool", n = 1 (True) or 0 (False)                                 *)
(***************************************************************************)
PyNone    == [t |-> "none", s |-> <<>>, n |-> 0]
PyStr(cs) == [t |-> "str",  s |-> cs,   n |-> 0]
PyInt(k)  == [t |-> "int",  s |-> <<>>, n |-> k]
PyBool(b) == [t |-> "bool", s |-> <<>>, n |-> IF b THEN 1 ELSE 0]
\* an object of some other type whose __str__ raises
PyBad     == [t |-> "bad",  s |-> <<>>, n |-> 0]

UpperChars == <<"A","B","C","D","E","F","G","H","I","J","K","L","M",
                "N","O","P","Q","R","S","T","U","V","W","X","Y","Z">>
LowerChars == <<"a","b","c","d","e","f","g","h","i","j","k","l","m",
                "n","o","p","q","r","s","t","u","v","w","x","y","z">>
DigitChars == <<"0","1","2","3","4","5","6","7","8","9">>
SpaceChars == {" ", "\t", "\n"}

\* str.lower(), one character
LowerChar(c) ==
  IF \E i \in 1..26 : UpperChars[i] = c
    THEN LowerChars[CHOOSE i \in 1..26 : UpperChars[i] = c]
    ELSE c

\* str.lower()
Lower(cs) == [i \in 1..Len(cs) |-> LowerChar(cs[i])]

\* str.strip(): drops leading and trailing whitespace
RECURSIVE LStrip(_)
LStrip(cs) ==
  IF cs # <<>> /\ Head(cs) \in SpaceChars THEN LStrip(Tail(cs)) ELSE cs

RECURSIVE RStrip(_)
RStrip(cs) ==
  IF cs # <<>> /\ cs[Len(cs)] \in SpaceChars
    THEN RStrip(SubSeq(cs, 1, Len(cs) - 1))
    ELSE cs

Strip(cs) == RStrip(LStrip(cs))

\* decimal digits of a natural number, as str(int) prints them
RECURSIVE NatDigits(_)
NatDigits(k) ==
  IF k < 10 THEN <<DigitChars[k + 1]>>
            ELSE NatDigits(k \div 10) \o <<DigitChars[(k % 10) + 1]>>

\* str(value)
Str(v) ==
  CASE v.t = "none" -> <<"N","o","n","e">>
    [] v.t = "str"  -> v.s
    [] v.t = "int"  -> IF v.n < 0 THEN <<"-">> \o NatDigits(0 - v.n)
                                  ELSE NatDigits(v.n)
    [] v.t = "bool" -> IF v.n = 1 THEN <<"T","r","u","e">>
                                  ELSE <<"F","a","l","s","e">>

(***************************************************************************)
(* Messages.  The Body of a raw message is JSON text; json.loads is the    *)
(* library's: a text either decodes to a value or raises JSONDecodeError.  *)
(* A decoded body is [isdict, d].  When isdict, d is the mapping: it has   *)
(* one entry per name of FieldNames, and the entry Absent says that the    *)
(* key is not in the dict.  Every other decoded value, and a raw string    *)
(* kept by format_message, has isdict = FALSE.                             *)
(***************************************************************************)
FieldNames == {"description", "id", "messageId", "requestId", "userId",
               "itemId", "status"}

Absent == [t |-> "absent", s |-> <<>>, n |-> 0]
NoFields == [f \in FieldNames |-> Absent]

\* the dict with the given entries (a record over some of FieldNames)
Dict(r) == [f \in FieldNames |-> IF f \in DOMAIN r THEN r[f] ELSE Absent]

DictBody(d) == [isdict |-> TRUE,  d |-> d]
OtherBody   == [isdict |-> FALSE, d |-> NoFields]

\* field in d
HasKey(d, field) == d[field] # Absent

\* d.get(field, default)
DictGet(d, field, default) == IF HasKey(d, field) THEN d[field] ELSE default

JsonText(body) == [valid |-> TRUE,  val |-> body]
BadJsonText    == [valid |-> FALSE, val |-> OtherBody]

EmptyStr == <<>>

\* the bodies the transport hands out, by message id
RawBodies ==
  << JsonText(DictBody(Dict([description |-> PyStr(EmptyStr), id |-> PyInt(1)]))),
     BadJsonText,
     JsonText(DictBody(Dict([description |-> PyStr(<<"x">>), id |-> PyInt(2)]))),
     JsonText(OtherBody),
     JsonText(DictBody(Dict([id |-> PyStr(<<"1">>)]))) >>

RawMessage(id) ==
  [MessageId |-> id, Body |-> RawBodies[(id % Len(RawBodies)) + 1]]

\* response['Messages'] of a receive call that hands out n messages from id
Messages(from, n) == [k \in 1..n |-> RawMessage(from + k - 1)]

\* format_message: the body is the decoded JSON, or the raw string (not a
\* dict) when json.loads raises JSONDecodeError
format_message(message, queue_name) ==
  [queue_name |-> queue_name,
   message_id |-> message.MessageId,
   body       |-> IF message.Body.valid THEN message.Body.val ELSE OtherBody]

(***************************************************************************)
(* Filter predicates.  A predicate is [kind, field, value]; field and      *)
(* value are the closure's captured field_name and field_value/target_id.  *)
(***************************************************************************)
EmptyDescriptionPred    == [kind |-> "empty_description", field |-> "description",
                            value |-> EmptyStr]
SpecificIdPred(target)  == [kind |-> "specific_id", field |-> "id", value |-> target]
CustomFieldPred(f, val) == [kind |-> "custom_field", field |-> f, value |-> val]

IdFields == <<"id", "messageId", "requestId", "userId", "itemId">>

\* empty_description_filter
empty_description_filter(message) ==
  LET body == message.body
      description == DictGet(body.d, "description", PyStr(EmptyStr))
  IN IF body.isdict
       THEN description = PyStr(EmptyStr) \/ description = PyNone
       ELSE FALSE

\* specific_id_filter
specific_id_filter(message, target_id) ==
  LET body == message.body
  IN IF body.isdict
       THEN \E i \in 1..Len(IdFields) :
              Str(DictGet(body.d, IdFields[i], PyStr(EmptyStr))) = target_id
       ELSE FALSE

\* custom_field_filter
custom_field_filter(message, field_name, field_value) ==
  LET body == message.body
  IN IF body.isdict
       THEN Str(DictGet(body.d, field_name, PyStr(EmptyStr))) = field_value
       ELSE FALSE

\* filter_func(message)
Evaluate(pred, message) ==
  CASE pred.kind = "empty_description" -> empty_description_filter(message)
    [] pred.kind = "specific_id"  -> specific_id_filter(message, pred.value)
    [] pred.kind = "custom_field" ->
         custom_field_filter(message, pred.field, pred.value)

(***************************************************************************)
(* FilterCriteria.apply_filters                                            *)
(***************************************************************************)
\* the inner loop without its break, the flag following the last predicate
RECURSIVE passes_last_filter(_, _)
passes_last_filter(filters, message) ==
  IF filters = <<>> THEN TRUE
  ELSE IF Len(filters) = 1 THEN Evaluate(Head(filters), message)
  ELSE passes_last_filter(Tail(filters), message)

\* the inner loop leaving after the first predicate
passes_first_filter(filters, message) ==
  filters = <<>> \/ Evaluate(Head(filters), message)

\* the inner loop: passes_all_filters, with its break at the first failure
RECURSIVE passes_all_filters(_, _)
passes_all_filters(filters, message) ==
  IF filters = <<>> THEN TRUE
  ELSE IF ~Evaluate(Head(filters), message) THEN FALSE
  ELSE passes_all_filters(Tail(filters), message)

RECURSIVE EvalTrace(_, _, _)
\* the positions the inner loop visits from position i on: it calls
\* filter_func(message) at i and leaves at the first False
EvalTrace(filters, message, i) ==
  IF i > Len(filters) THEN <<>>
  ELSE IF ~Evaluate(filters[i], message) THEN <<i>>
  ELSE <<i>> \o EvalTrace(filters, message, i + 1)

\* an inner loop without break: every predicate is called
inner_loop_trace_no_break(filters, message) ==
  [i \in 1..Len(filters) |-> i]

\* for filter_func in self.filters: if not filter_func(message): ... break
inner_loop_trace(filters, message) == EvalTrace(filters, message, 1)

\* the outer loop with insert(0, message) for append(message)
RECURSIVE FilterLoopPrepend(_, _, _)
FilterLoopPrepend(filters, messages, filtered_messages) ==
  IF messages = <<>> THEN filtered_messages
  ELSE FilterLoopPrepend(filters, Tail(messages),
                  IF passes_all_filters(filters, Head(messages))
                    THEN <<Head(messages)>> \o filtered_messages
                    ELSE filtered_messages)

\* the outer loop: filtered_messages.append(message) in input order
RECURSIVE FilterLoop(_, _, _)
FilterLoop(filters, messages, filtered_messages) ==
  IF messages = <<>> THEN filtered_messages
  ELSE FilterLoop(filters, Tail(messages),
                  IF passes_all_filters(filters, Head(messages))
                    THEN Append(filtered_messages, Head(messages))
                    ELSE filtered_messages)

\* apply_filters with an empty list for the empty chain
apply_filters_empty(filters, messages) ==
  IF filters = <<>> THEN <<>>
  ELSE FilterLoop(filters, messages, <<>>)

apply_filters(filters, messages) ==
  IF filters = <<>> THEN messages
  ELSE FilterLoop(filters, messages, <<>>)

(***************************************************************************)
(* DLQItemsLister._safe_compare_values                                     *)
(***************************************************************************)
IsDigit(c) == \E i \in 1..10 : DigitChars[i] = c
DigitVal(c) == (CHOOSE i \in 1..10 : DigitChars[i] = c) - 1
AllDigits(cs) == \A i \in 1..Len(cs) : IsDigit(cs[i])

RECURSIVE DigitsVal(_)
DigitsVal(cs) ==
  IF cs = <<>> THEN 0
  ELSE 10 * DigitsVal(SubSeq(cs, 1, Len(cs) - 1)) + DigitVal(cs[Len(cs)])

RECURSIVE Pow10(_)
Pow10(k) == IF k = 0 THEN 1 ELSE 10 * Pow10(k - 1)

NotANumber == [ok |-> FALSE, m |-> 0, e |-> 0]

\* float(text) for a stripped text: [sign] digits [. [digits]] or
\* [sign] . digits, the number being m / 10^e; anything else raises
\* ValueError (ok = FALSE).  Exponents, underscores, "inf" and "nan" are
\* not among the texts of the model.
ParseFloat(cs) ==
  LET signed == cs # <<>> /\ Head(cs) \in {"+", "-"}
      body   == IF signed THEN Tail(cs) ELSE cs
      dots   == {i \in 1..Len(body) : body[i] = "."}
      dot    == IF dots = {} THEN Len(body) + 1 ELSE CHOOSE i \in dots : TRUE
      ip     == SubSeq(body, 1, dot - 1)
      fp     == SubSeq(body, dot + 1, Len(body))
      mag    == DigitsVal(ip \o fp)
  IN IF Cardinality(dots) <= 1 /\ AllDigits(ip) /\ AllDigits(fp)
        /\ Len(ip) + Len(fp) >= 1
       THEN [ok |-> TRUE,
             m  |-> IF signed /\ Head(cs) = "-" THEN 0 - mag ELSE mag,
             e  |-> Len(fp)]
       ELSE NotANumber

\* float(a) == float(b)
FloatEq(a, b) == a.m * Pow10(b.e) = b.m * Pow10(a.e)

\* the list without 'yes'
TruthyWordsNoYes == { <<"t","r","u","e">>, <<"1">>, <<"s","i","m">> }

\* ['true', '1', 'yes', 'sim']
TruthyWords == { <<"t","r","u","e">>, <<"1">>, <<"y","e","s">>, <<"s","i","m">> }

\* the comparison without its numeric step
CompareNoNumeric(value1, value2) ==
  LET str_value1 == Strip(Str(value1))
      str_value2 == Strip(Str(value2))
      bool_value1 == Lower(str_value1) \in TruthyWords
      bool_value2 == Lower(str_value2) \in TruthyWords
  IN IF Lower(str_value1) = Lower(str_value2) THEN TRUE
     ELSE IF bool_value1 = bool_value2 THEN TRUE
     ELSE FALSE

\* the comparison after the two None tests
CompareNonNull(value1, value2) ==
  LET str_value1 == Strip(Str(value1))
      str_value2 == Strip(Str(value2))
      f1 == ParseFloat(str_value1)
      f2 == ParseFloat(str_value2)
      bool_value1 == Lower(str_value1) \in TruthyWords
      bool_value2 == Lower(str_value2) \in TruthyWords
  IN IF Lower(str_value1) = Lower(str_value2) THEN TRUE
     ELSE IF f1.ok /\ f2.ok /\ FloatEq(f1, f2) THEN TRUE
     ELSE IF bool_value1 = bool_value2 THEN TRUE
     ELSE FALSE

\* the one-sided None test left out
OneIsNoneMissing(value1, value2) == FALSE

\* if value1 is None or value2 is None: return False
OneIsNone(value1, value2) == value1 = PyNone \/ value2 = PyNone

\* str(value) raises
StrRaises(v) == v.t = "bad"

\* the body of the outer try raises: str(value1) or str(value2) does, once
\* the two None tests are passed
BodyRaises(value1, value2) ==
  /\ ~(value1 = PyNone /\ value2 = PyNone)
  /\ ~OneIsNone(value1, value2)
  /\ (StrRaises(value1) \/ StrRaises(value2))

\* the value the body of the outer try returns when it does not raise
CompareBody(value1, value2) ==
  IF value1 = PyNone /\ value2 = PyNone THEN TRUE
  ELSE IF OneIsNone(value1, value2) THEN FALSE
  ELSE CompareNonNull(value1, value2)

\* the method without its outer except clause
SafeCompareOutcomeNoHandler(value1, value2) ==
  IF BodyRaises(value1, value2)
    THEN [raised |-> TRUE, ret |-> FALSE]
    ELSE [raised |-> FALSE, ret |-> CompareBody(value1, value2)]

\* the method: [raised, ret]; except Exception: return False
SafeCompareOutcome(value1, value2) ==
  IF BodyRaises(value1, value2)
    THEN [raised |-> FALSE, ret |-> FALSE]
    ELSE [raised |-> FALSE, ret |-> CompareBody(value1, value2)]

_safe_compare_values(value1, value2) == SafeCompareOutcome(value1, value2).ret


VARIABLES
  \* ---- get_messages_from_queue (one activation) ----
  g_pc,               \* "idle" | "loop" | "done"
  max_messages,       \* the max_messages argument
  all_messages,       \* local all_messages
  messages_received,  \* local messages_received
  batch_size,         \* MaxNumberOfMessages of the last receive call (0: none yet)
  last_len,           \* len(messages) of the last response (-1: none yet / raised)
  calls,              \* number of receive_message calls issued
  first_short,        \* number of the first call that returned fewer messages
                      \* than it requested (0: none did)
  g_raised,           \* a receive call raised
  g_ret,              \* the returned list
  next_id,            \* transport: id of the next message it hands out
  \* ---- FilterCriteria ----
  filters,            \* self.filters
  f_pc,               \* "off" | "idle" | "applied"
  f_messages,         \* the messages argument of apply_filters
  f_out,              \* the list apply_filters returned
  f_trace,            \* for each input message, the positions in the chain of
                      \* the predicates the last apply_filters call evaluated
  \* ---- list_dlq_items_with_filters ----
  l_pc,               \* "off" | "idle" | "loop" | "get" | "done"
  max_messages_per_queue,
  selected_queues,    \* the selected_queues argument (a set of names)
  selected_dlqs,      \* the configured queues that are selected, in order
  l_i,                \* position of the for loop in selected_dlqs
  lister_all_messages,\* local all_messages: queue name -> filtered messages
  filtered_results,   \* self.filtered_results
  l_failed,           \* queues whose retrieval met a transport error
  \* ---- run() of count_sqs_queue_itens ----
  run_pc,             \* "off" | "idle" | "loop" | "done"
  run_i,              \* position of the for loop in queue_url_list
  messages_per_queue, \* queue name -> count or error sentinel
  run_failed,         \* queues whose get_queue_attributes raised
  \* ---- _safe_compare_values ----
  cmp_pc,             \* "off" | "idle" | "done"
  value1,
  value2,
  cmp_ret,
  cmp_raised,         \* the call let an exception out
  \* ---- count_messages_by_field (one activation) ----
  c_pc,               \* "off" | "idle" | "loop" | "done"
  field_name,
  field_value,
  c_max,              \* the max_messages argument: None or an int
  total_count,
  total_processed,
  messages_with_json_errors,
  messages_without_field,
  c_batch,            \* MaxNumberOfMessages of the last receive call (0: none yet)
  c_last_len,         \* len(messages) of the last response (-1: none yet / raised)
  c_raised,           \* a receive call raised
  c_ret,              \* the returned count
  c_first,            \* transport: id of the first message of the queue
  \* ---- QueueChangeTracker ----
  t_pc,               \* "off" | "idle" | "called"
  previous_counts,    \* self.previous_counts: queue name -> count
  current_counts,     \* the argument of the last detect_changes call: its
                      \* items in the order the dict yields them
  prev_before,        \* previous_counts as the last call found it
  changes,            \* the changes the last call returned
  seen_numeric,       \* history: the last int each queue was reported with
  \* ---- a call repeated against the same transport responses ----
  e_rep,              \* 0: off, 1: first call, 2: the repeated call
  e_fn,               \* "none" | "get" | "count": the method called
  script,             \* transport: what each receive call answers, in order
  script_pos,         \* transport: the next answer of script
  e_first,            \* what the first call returned
  sqs_ops,            \* the SQS operations issued so far
  \* ---- main() of list_dlq_items ----
  m_pc,               \* "off" | "idle" | "listing" | "loop" | "count" | "done"
  m_mode,             \* "none" | "list" | "count"
  args_max_messages,  \* args.max_messages
  m_i,                \* count mode: position in lister.dlq_list
  m_total,            \* count mode: main's total_count
  m_counts,           \* count mode: the count printed for each queue
  m_failed,           \* count mode: queues whose count met a transport error
  \* ---- time_period_filter ----
  w_pc,               \* "off" | "idle" | "done"
  sent_timestamp,     \* attributes.get('SentTimestamp') of the message
  start_dt,           \* None or the start of the window, in seconds
  end_dt,             \* None or the end of the window, in seconds
  w_ret,              \* what the predicate returned
  \* ---- the polling loop of count_sqs_queue_itens ----
  p_pc,               \* "off" | "running"
  SAVE_TO_LOG,        \* the module's SAVE_TO_LOG
  now,                \* seconds since the loop started
  last_save,          \* value of now when save_to_log last ran (0: never)
  \* ---- history of the events of one tracker, by queue ----
  h_first,            \* the first int the queue was reported with
  h_sum,              \* the sum of the delta fields of its events so far
  h_last_cur,         \* current_count of its latest event (h_first if none)
  h_prev_cur          \* h_last_cur as it was before the last call

retrVars == <<g_pc, max_messages, all_messages, messages_received, batch_size,
              last_len, calls, first_short, g_raised, g_ret, next_id>>
filterVars == <<filters, f_pc, f_messages, f_out, f_trace>>
listerVars == <<l_pc, max_messages_per_queue, selected_queues, selected_dlqs,
                l_i, lister_all_messages, filtered_results, l_failed>>
runVars == <<run_pc, run_i, messages_per_queue, run_failed>>
cmpVars == <<cmp_pc, value1, value2, cmp_ret, cmp_raised>>
countVars == <<c_pc, field_name, field_value, c_max, total_count,
               total_processed, messages_with_json_errors,
               messages_without_field, c_batch, c_last_len, c_raised,
               c_ret, c_first>>
trackVars == <<t_pc, previous_counts, current_counts, prev_before, changes,
               seen_numeric>>
engineVars == <<e_rep, e_fn, script, script_pos, e_first, sqs_ops>>
mainVars == <<m_pc, m_mode, args_max_messages, m_i, m_total, m_counts, m_failed>>
timeVars == <<w_pc, sent_timestamp, start_dt, end_dt, w_ret>>
pollVars == <<p_pc, SAVE_TO_LOG, now, last_save>>
teleVars == <<h_first, h_sum, h_last_cur, h_prev_cur>>
extVars == <<engineVars, mainVars, timeVars, pollVars, teleVars>>
vars == <<retrVars, filterVars, listerVars, runVars, cmpVars, countVars,
          trackVars, extVars>>

\* the configured queues: dlq_list of list_dlq_items, queue_url_list of
\* count_sqs_queue_itens (a queue's name is its position)
dlq_list == [i \in 1..NumQueues |-> i]
queue_url_list == [i \in 1..NumQueues |-> i]

\* a name that is not configured (a mistyped --queues entry)
UnknownQueue == 0

EmptyMap == [q \in {} |-> <<>>]

\* d[k] = v
MapPut(d, k, v) == [q \in (DOMAIN d) \cup {k} |-> IF q = k THEN v ELSE d[q]]

(***************************************************************************)
(* get_messages_from_queue                                                 *)
(***************************************************************************)
\* the batch size without the remaining count
BatchSizeNoRemaining(limit, received) == SqsBatchMax

\* batch_size = min(10, max_messages - messages_received)
BatchSize(limit, received) == Min(SqsBatchMax, limit - received)

\* the loop test written with <=
LoopCondLE(received, limit) == received <= limit

\* while messages_received < max_messages
LoopCond(received, limit) == received < limit

\* an entry that keeps the list of an earlier call
GetMessagesEntryKeep(limit) ==
  /\ max_messages' = limit
  /\ all_messages' = all_messages
  /\ messages_received' = 0
  /\ batch_size' = 0
  /\ last_len' = -1
  /\ calls' = 0
  /\ first_short' = 0
  /\ g_raised' = FALSE
  /\ g_ret' = <<>>
  /\ g_pc' = IF LoopCond(0, limit) THEN "loop" ELSE "done"
  /\ UNCHANGED next_id

\* entry: the locals are initialised and the while condition is evaluated
\* once; with max_messages <= 0 the loop body never runs
GetMessagesEntry(limit) ==
  /\ max_messages' = limit
  /\ all_messages' = <<>>
  /\ messages_received' = 0
  /\ batch_size' = 0
  /\ last_len' = -1
  /\ calls' = 0
  /\ first_short' = 0
  /\ g_raised' = FALSE
  /\ g_ret' = <<>>
  /\ g_pc' = IF LoopCond(0, limit) THEN "loop" ELSE "done"
  /\ UNCHANGED next_id

\* one receive_message call that returns n >= 1 messages, up to the loop's
\* next test of messages_received < max_messages
ReceiveMessages(n) ==
  /\ g_pc = "loop"
  /\ LoopCond(messages_received, max_messages)
  /\ LET bs == BatchSize(max_messages, messages_received)
         ms == Messages(next_id, n)
     IN /\ n \in 1..bs
        /\ batch_size' = bs
        /\ calls' = calls + 1
        /\ last_len' = n
        /\ first_short' = IF first_short = 0 /\ n < bs THEN calls + 1 ELSE first_short
        /\ all_messages' = all_messages \o ms
        /\ messages_received' = messages_received + Len(ms)
        /\ next_id' = next_id + n
        /\ IF LoopCond(messages_received + Len(ms), max_messages)
             THEN g_pc' = "loop" /\ UNCHANGED g_ret
             ELSE g_pc' = "done" /\ g_ret' = all_messages \o ms
        /\ UNCHANGED <<max_messages, g_raised>>

\* an empty response that does not leave the loop
ReceiveEmptyContinue ==
  /\ g_pc = "loop"
  /\ LoopCond(messages_received, max_messages)
  /\ batch_size' = BatchSize(max_messages, messages_received)
  /\ calls' = calls + 1
  /\ last_len' = 0
  /\ first_short' = IF first_short = 0 /\ 0 < BatchSize(max_messages, messages_received)
                      THEN calls + 1 ELSE first_short
  /\ UNCHANGED <<g_pc, g_ret>>
  /\ UNCHANGED <<max_messages, all_messages, messages_received, g_raised, next_id>>

\* one receive_message call whose response has no Messages: break
ReceiveEmpty ==
  /\ g_pc = "loop"
  /\ LoopCond(messages_received, max_messages)
  /\ batch_size' = BatchSize(max_messages, messages_received)
  /\ calls' = calls + 1
  /\ last_len' = 0
  /\ first_short' = IF first_short = 0 /\ 0 < BatchSize(max_messages, messages_received)
                      THEN calls + 1 ELSE first_short
  /\ g_pc' = "done"
  /\ g_ret' = all_messages
  /\ UNCHANGED <<max_messages, all_messages, messages_received, g_raised, next_id>>

\* one receive_message call that raises: except Exception ... return []
ReceiveRaises ==
  /\ g_pc = "loop"
  /\ LoopCond(messages_received, max_messages)
  /\ batch_size' = BatchSize(max_messages, messages_received)
  /\ calls' = calls + 1
  /\ last_len' = -1
  /\ g_raised' = TRUE
  /\ g_pc' = "done"
  /\ g_ret' = <<>>
  /\ UNCHANGED <<max_messages, all_messages, messages_received, first_short, next_id>>

\* get_messages_from_queue called on its own
RetrieverCall ==
  /\ l_pc = "off"
  /\ g_pc = "idle"
  /\ \E limit \in 0..MaxLimit : GetMessagesEntry(limit)

RetrieverStep ==
  \/ \E n \in 1..SqsBatchMax : ReceiveMessages(n)
  \/ ReceiveEmpty
  \/ ReceiveRaises

(***************************************************************************)
(* FilterCriteria.add_filter and apply_filters as operations               *)
(***************************************************************************)
FilterMsgs ==
  { [queue_name |-> 1, message_id |-> 1,
     body |-> DictBody(Dict([description |-> PyStr(EmptyStr), id |-> PyInt(1)]))],
    [queue_name |-> 1, message_id |-> 2,
     body |-> DictBody(Dict([description |-> PyStr(<<"x">>), id |-> PyInt(2)]))],
    [queue_name |-> 1, message_id |-> 3, body |-> OtherBody],
    [queue_name |-> 1, message_id |-> 4,
     body |-> DictBody(Dict([userId |-> PyStr(<<"1">>), description |-> PyNone]))],
    [queue_name |-> 1, message_id |-> 5,
     body |-> DictBody(Dict([status |-> PyStr(<<"x">>)]))] }

FilterPreds ==
  { EmptyDescriptionPred,
    SpecificIdPred(<<"1">>),
    SpecificIdPred(EmptyStr),
    CustomFieldPred("description", <<"x">>),
    CustomFieldPred("status", <<"x">>),
    CustomFieldPred("status", EmptyStr) }

\* the lists of length at most n over S
SeqsUpTo(S, n) == UNION { [1..k -> S] : k \in 0..n }

add_filter(pred) ==
  /\ f_pc = "idle"
  /\ Len(filters) < MaxChain
  /\ filters' = Append(filters, pred)
  /\ UNCHANGED <<f_pc, f_messages, f_out, f_trace>>

ApplyFilters(messages) ==
  /\ f_pc = "idle"
  /\ f_messages' = messages
  /\ f_out' = apply_filters(filters, messages)
  /\ f_trace' = [k \in 1..Len(messages) |-> inner_loop_trace(filters, messages[k])]
  /\ f_pc' = "applied"
  /\ UNCHANGED filters

(***************************************************************************)
(* list_dlq_items_with_filters                                             *)
(***************************************************************************)
\* [(name, url) for name, url in self.dlq_list if name in selected_queues]
SelectedDlqs(selected) ==
  LET keep == {i \in 1..Len(dlq_list) : dlq_list[i] \in selected}
      F[k \in 0..Len(dlq_list)] ==
        IF k = 0 THEN <<>>
        ELSE IF k \in keep THEN Append(F[k - 1], dlq_list[k]) ELSE F[k - 1]
  IN F[Len(dlq_list)]

\* entry, up to the for loop
ListDlqItems(limit, selected) ==
  /\ l_pc = "idle"
  /\ max_messages_per_queue' = limit
  /\ selected_queues' = selected
  /\ selected_dlqs' = SelectedDlqs(selected)
  /\ l_i' = 1
  /\ lister_all_messages' = EmptyMap
  /\ l_failed' = {}
  /\ IF SelectedDlqs(selected) = <<>>
       THEN l_pc' = "done" /\ filtered_results' = EmptyMap
       ELSE l_pc' = "loop" /\ UNCHANGED filtered_results

\* messages = self.get_messages_from_queue(queue_url, max_messages_per_queue)
ProcessQueueGet ==
  /\ l_pc = "loop"
  /\ g_pc = "idle"
  /\ GetMessagesEntry(max_messages_per_queue)
  /\ l_pc' = "get"
  /\ UNCHANGED <<max_messages_per_queue, selected_queues, selected_dlqs, l_i,
                 lister_all_messages, filtered_results, l_failed>>

\* the formatted and filtered messages of one queue
QueueEntry(messages, queue_name) ==
  LET formatted_messages ==
        [k \in 1..Len(messages) |-> format_message(messages[k], queue_name)]
  IN IF messages = <<>> THEN <<>>
     ELSE IF filters # <<>> THEN apply_filters(filters, formatted_messages)
     ELSE formatted_messages

\* the loop body when a transport error leaves the method instead of being
\* caught per queue
ProcessQueueRestAbort ==
  /\ l_pc = "get"
  /\ g_pc = "done"
  /\ LET queue_name == selected_dlqs[l_i]
         new_all == IF g_raised THEN lister_all_messages
                    ELSE MapPut(lister_all_messages, queue_name,
                                QueueEntry(g_ret, queue_name))
     IN /\ lister_all_messages' = new_all
        /\ l_failed' = IF g_raised THEN l_failed \cup {queue_name} ELSE l_failed
        /\ l_i' = l_i + 1
        /\ IF g_raised \/ l_i + 1 > Len(selected_dlqs)
             THEN l_pc' = "done" /\ filtered_results' = new_all
             ELSE l_pc' = "loop" /\ UNCHANGED filtered_results
  /\ g_pc' = "idle"
  /\ UNCHANGED <<max_messages, all_messages, messages_received, batch_size,
                 last_len, calls, first_short, g_raised, g_ret, next_id,
                 max_messages_per_queue, selected_queues, selected_dlqs>>

\* the rest of the loop body once get_messages_from_queue has returned, and
\* after the last queue the end of the method
ProcessQueueRest ==
  /\ l_pc = "get"
  /\ g_pc = "done"
  /\ LET queue_name == selected_dlqs[l_i]
         new_all == MapPut(lister_all_messages, queue_name,
                           QueueEntry(g_ret, queue_name))
     IN /\ lister_all_messages' = new_all
        /\ l_failed' = IF g_raised THEN l_failed \cup {queue_name} ELSE l_failed
        /\ l_i' = l_i + 1
        /\ IF l_i + 1 > Len(selected_dlqs)
             THEN l_pc' = "done" /\ filtered_results' = new_all
             ELSE l_pc' = "loop" /\ UNCHANGED filtered_results
  /\ g_pc' = "idle"
  /\ UNCHANGED <<max_messages, all_messages, messages_received, batch_size,
                 last_len, calls, first_short, g_raised, g_ret, next_id,
                 max_messages_per_queue, selected_queues, selected_dlqs>>

(***************************************************************************)
(* run() of count_sqs_queue_itens                                          *)
(***************************************************************************)
\* "Erro: ..."
ErrorSentinel == PyStr(<<"E","r","r","o">>)

\* int(text) of a text of digits
ParseInt(cs) == DigitsVal(cs)

RunCall ==
  /\ run_pc = "idle"
  /\ messages_per_queue' = EmptyMap
  /\ run_failed' = {}
  /\ run_i' = 1
  /\ run_pc' = IF Len(queue_url_list) = 0 THEN "done" ELSE "loop"

RunAdvance ==
  /\ run_i' = run_i + 1
  /\ run_pc' = IF run_i + 1 > Len(queue_url_list) THEN "done" ELSE "loop"

\* get_queue_attributes answers: messages_per_queue[name] = int(messages)
RunQueueOk(count) ==
  /\ run_pc = "loop"
  /\ LET messages == NatDigits(count)
     IN messages_per_queue' =
          MapPut(messages_per_queue, queue_url_list[run_i], PyInt(ParseInt(messages)))
  /\ UNCHANGED run_failed
  /\ RunAdvance

\* get_queue_attributes raises: messages_per_queue[name] = f"Erro: {str(e)}"
RunQueueError ==
  /\ run_pc = "loop"
  /\ messages_per_queue' =
       MapPut(messages_per_queue, queue_url_list[run_i], ErrorSentinel)
  /\ run_failed' = run_failed \cup {queue_url_list[run_i]}
  /\ RunAdvance

(***************************************************************************)
(* count_messages_by_field                                                 *)
(***************************************************************************)
StatusBody(text) == JsonText(DictBody(Dict([status |-> PyStr(text)])))

\* the bodies of the queue of a count run, by message id: a text that is
\* not JSON, a JSON value that is not an object, an object without the
\* field, then 25 objects of which four have status FAILED in some case,
\* one has status true and the others status OK
CountBodies ==
  [k \in 1..28 |->
     CASE k = 1  -> BadJsonText
       [] k = 2  -> JsonText(OtherBody)
       [] k = 3  -> JsonText(DictBody(Dict([id |-> PyInt(7)])))
       [] k = 6  -> StatusBody(<<"F","A","I","L","E","D">>)
       [] k = 10 -> StatusBody(<<"t","r","u","e">>)
       [] k = 13 -> StatusBody(<<"F","a","i","l","e","d">>)
       [] k = 20 -> StatusBody(<<"f","a","i","l","e","d">>)
       [] k = 27 -> StatusBody(<<"F","A","I","L","E","D">>)
       [] OTHER  -> StatusBody(<<"O","K">>)]

CountMessage(id) ==
  [MessageId |-> id, Body |-> CountBodies[((id - 1) % Len(CountBodies)) + 1]]

CountMessages(from, n) == [k \in 1..n |-> CountMessage(from + k - 1)]

\* if max_messages: (None and 0 are falsy)
HasLimit(limit) == limit.t = "int" /\ limit.n # 0

\* if max_messages and total_processed >= max_messages: break
LimitReached(limit, processed) == HasLimit(limit) /\ processed >= limit.n

\* the batch size without the remaining count
CountBatchSizeNoRemaining(limit, processed) == SqsBatchMax

\* batch_size = 10; if max_messages: batch_size = min(10, remaining)
CountBatchSize(limit, processed) ==
  IF HasLimit(limit) THEN Min(SqsBatchMax, limit.n - processed) ELSE SqsBatchMax

Counters(count, processed, json_errors, without_field) ==
  [count |-> count, processed |-> processed, json_errors |-> json_errors,
   without_field |-> without_field]

\* the loop body without the isinstance(body, dict) test
ProcessMessageNoDictTest(st, message, name, value) ==
  LET body == message.Body.val
      processed == st.processed + 1
  IN IF ~message.Body.valid
       THEN Counters(st.count, processed, st.json_errors + 1, st.without_field)
     ELSE IF ~body.isdict \/ ~HasKey(body.d, name)
       THEN Counters(st.count, processed, st.json_errors, st.without_field + 1)
     ELSE IF _safe_compare_values(body.d[name], value)
       THEN Counters(st.count + 1, processed, st.json_errors, st.without_field)
     ELSE Counters(st.count, processed, st.json_errors, st.without_field)

\* the body of "for message in messages"
ProcessMessage(st, message, name, value) ==
  LET body == message.Body.val
      processed == st.processed + 1
  IN IF ~message.Body.valid
       THEN Counters(st.count, processed, st.json_errors + 1, st.without_field)
     ELSE IF ~body.isdict
       THEN Counters(st.count, processed, st.json_errors + 1, st.without_field)
     ELSE IF ~HasKey(body.d, name)
       THEN Counters(st.count, processed, st.json_errors, st.without_field + 1)
     ELSE IF _safe_compare_values(body.d[name], value)
       THEN Counters(st.count + 1, processed, st.json_errors, st.without_field)
     ELSE Counters(st.count, processed, st.json_errors, st.without_field)

\* for message in messages: ...
RECURSIVE ProcessBatch(_, _, _, _)
ProcessBatch(st, messages, name, value) ==
  IF messages = <<>> THEN st
  ELSE ProcessBatch(ProcessMessage(st, Head(messages), name, value),
                    Tail(messages), name, value)

\* messages the queue still holds
QueueLeft == c_first + QueueLen - next_id

\* entry with a queue that resolves, up to the first test of the limit
CountCall(name, value, limit) ==
  /\ c_pc = "idle"
  /\ field_name' = name
  /\ field_value' = value
  /\ c_max' = limit
  /\ total_count' = 0
  /\ total_processed' = 0
  /\ messages_with_json_errors' = 0
  /\ messages_without_field' = 0
  /\ c_batch' = 0
  /\ c_last_len' = -1
  /\ c_raised' = FALSE
  /\ IF LimitReached(limit, 0)
       THEN c_pc' = "done" /\ c_ret' = 0
       ELSE c_pc' = "loop" /\ UNCHANGED c_ret
  /\ UNCHANGED <<c_first, next_id>>

\* entry with a queue name that _resolve_queue_url does not find: return 0
CountCallUnknownQueue(name, value, limit) ==
  /\ c_pc = "idle"
  /\ field_name' = name
  /\ field_value' = value
  /\ c_max' = limit
  /\ c_pc' = "done"
  /\ c_ret' = 0
  /\ UNCHANGED <<total_count, total_processed, messages_with_json_errors,
                 messages_without_field, c_batch, c_last_len, c_raised,
                 c_first, next_id>>

\* one receive_message call that returns n >= 1 messages, the for loop over
\* them, and the next test of the limit
CountReceive(n) ==
  /\ c_pc = "loop"
  /\ n \in 1..Min(CountBatchSize(c_max, total_processed), QueueLeft)
  /\ \E st \in { ProcessBatch(Counters(total_count, total_processed,
                                        messages_with_json_errors,
                                        messages_without_field),
                               CountMessages(next_id, n),
                               field_name, field_value) } :
       /\ total_count' = st.count
       /\ total_processed' = st.processed
       /\ messages_with_json_errors' = st.json_errors
       /\ messages_without_field' = st.without_field
       /\ IF LimitReached(c_max, st.processed)
            THEN c_pc' = "done" /\ c_ret' = st.count
            ELSE c_pc' = "loop" /\ UNCHANGED c_ret
  /\ c_batch' = CountBatchSize(c_max, total_processed)
  /\ c_last_len' = n
  /\ next_id' = next_id + n
  /\ UNCHANGED <<field_name, field_value, c_max, c_raised, c_first>>

\* one receive_message call whose response has no Messages: break
CountReceiveEmpty ==
  /\ c_pc = "loop"
  /\ c_batch' = CountBatchSize(c_max, total_processed)
  /\ c_last_len' = 0
  /\ c_pc' = "done"
  /\ c_ret' = total_count
  /\ UNCHANGED <<field_name, field_value, c_max, total_count, total_processed,
                 messages_with_json_errors, messages_without_field, c_raised,
                 c_first, next_id>>

\* a handler that returns 0 whatever was counted
CountReceiveRaisesZero ==
  /\ c_pc = "loop"
  /\ c_batch' = CountBatchSize(c_max, total_processed)
  /\ c_last_len' = -1
  /\ c_raised' = TRUE
  /\ c_pc' = "done"
  /\ c_ret' = 0
  /\ UNCHANGED <<field_name, field_value, c_max, total_count, total_processed,
                 messages_with_json_errors, messages_without_field, c_first,
                 next_id>>

\* one receive_message call that raises: except Exception ... return total_count
CountReceiveRaises ==
  /\ c_pc = "loop"
  /\ c_batch' = CountBatchSize(c_max, total_processed)
  /\ c_last_len' = -1
  /\ c_raised' = TRUE
  /\ c_pc' = "done"
  /\ c_ret' = total_count
  /\ UNCHANGED <<field_name, field_value, c_max, total_count, total_processed,
                 messages_with_json_errors, messages_without_field, c_first,
                 next_id>>

(***************************************************************************)
(* _safe_compare_values as an operation                                    *)
(***************************************************************************)
CmpValues ==
  { PyNone, PyBool(TRUE), PyBool(FALSE),
    PyStr(<<"t","r","u","e">>), PyStr(<<"Y","e","s">>), PyStr(<<"s","i","m">>),
    PyStr(<<"f","a","l","s","e">>),
    PyStr(<<"F","A","I","L","E","D">>), PyStr(<<"F","a","i","l","e","d">>),
    PyStr(<<"O","K">>), PyStr(<<" ","O","K"," ">>),
    PyStr(<<"1">>), PyStr(<<"1",".","0">>), PyStr(<<" ","1">>), PyStr(<<"0">>),
    PyStr(<<"N","o","n","e">>), PyStr(EmptyStr), PyBad }
  \cup { PyInt(k) : k \in 0..MaxInt }

SafeCompare(v1, v2) ==
  /\ cmp_pc = "idle"
  /\ value1' = v1
  /\ value2' = v2
  /\ cmp_ret' = SafeCompareOutcome(v1, v2).ret
  /\ cmp_raised' = SafeCompareOutcome(v1, v2).raised
  /\ cmp_pc' = "done"

(***************************************************************************)
(* time_period_filter of DLQItemsLister._setup_time_period_filter.         *)
(* SentTimestamp is a text of milliseconds; start_dt and end_dt are whole  *)
(* minutes, held in seconds.                                               *)
(***************************************************************************)
MsPerSecond == 1000
SecondsPerMinute == 60

\* attributes.get('SentTimestamp'): missing (None), or the attribute's text
SentTimestamps ==
  { PyNone, PyStr(EmptyStr), PyStr(<<"a","b","c">>), PyStr(<<"1","2",".","5">>),
    PyStr(<<" ">> \o NatDigits(SecondsPerMinute * MsPerSecond) \o <<" ">>) }
  \cup { PyStr(NatDigits(ms)) :
           ms \in { m * SecondsPerMinute * MsPerSecond + d :
                      m \in 0..MaxMinute, d \in {-1, 0, 1} } \cap Nat }

\* datetime.strptime(text, "%Y-%m-%d %H:%M"), or None for an empty input
WindowBounds ==
  {PyNone} \cup {PyInt(m * SecondsPerMinute) : m \in 0..MaxMinute}

\* not sent_timestamp
IsFalsy(v) == v = PyNone \/ (v.t = "str" /\ v.s = <<>>) \/ (v.t \in {"int", "bool"} /\ v.n = 0)

\* int(text) succeeds: optional blanks around a text of digits
IntParses(v) == v.t = "str" /\ Strip(v.s) # <<>> /\ AllDigits(Strip(v.s))

\* the predicate with a handler that rejects the message
time_period_filter_fail_closed(ts, start, end) ==
  IF IsFalsy(ts) THEN TRUE
  ELSE IF ~IntParses(ts) THEN FALSE
  ELSE LET msg_ms == DigitsVal(Strip(ts.s)) IN
       IF start # PyNone /\ msg_ms < start.n * MsPerSecond THEN FALSE
       ELSE IF end # PyNone /\ msg_ms > end.n * MsPerSecond THEN FALSE
       ELSE TRUE

\* time_period_filter: msg_time = fromtimestamp(int(sent_timestamp) / 1000)
\* is compared with the bounds in milliseconds; a bare except returns True
time_period_filter(ts, start, end) ==
  IF IsFalsy(ts) THEN TRUE
  ELSE IF ~IntParses(ts) THEN TRUE
  ELSE LET msg_ms == DigitsVal(Strip(ts.s)) IN
       IF start # PyNone /\ msg_ms < start.n * MsPerSecond THEN FALSE
       ELSE IF end # PyNone /\ msg_ms > end.n * MsPerSecond THEN FALSE
       ELSE TRUE

TimePeriodFilter(ts, start, end) ==
  /\ w_pc = "idle"
  /\ sent_timestamp' = ts
  /\ start_dt' = start
  /\ end_dt' = end
  /\ w_ret' = time_period_filter(ts, start, end)
  /\ w_pc' = "done"

(***************************************************************************)
(* Specifications                                                          *)
(***************************************************************************)
RetrOff ==
  /\ g_pc = "idle" /\ max_messages = 0 /\ all_messages = <<>>
  /\ messages_received = 0 /\ batch_size = 0 /\ last_len = -1 /\ calls = 0
  /\ first_short = 0 /\ g_raised = FALSE /\ g_ret = <<>> /\ next_id = 1

FilterOff ==
  /\ filters = <<>> /\ f_pc = "off" /\ f_messages = <<>> /\ f_out = <<>>
  /\ f_trace = <<>>

ListerOff ==
  /\ l_pc = "off" /\ max_messages_per_queue = 10 /\ selected_queues = {}
  /\ selected_dlqs = <<>> /\ l_i = 0 /\ lister_all_messages = EmptyMap
  /\ filtered_results = EmptyMap /\ l_failed = {}

RunOff ==
  /\ run_pc = "off" /\ run_i = 0 /\ messages_per_queue = EmptyMap
  /\ run_failed = {}

CmpOff ==
  /\ cmp_pc = "off" /\ value1 = PyNone /\ value2 = PyNone /\ cmp_ret = FALSE
  /\ cmp_raised = FALSE

CountOff ==
  /\ c_pc = "off" /\ field_name = "status" /\ field_value = PyNone
  /\ c_max = PyNone /\ total_count = 0 /\ total_processed = 0
  /\ messages_with_json_errors = 0 /\ messages_without_field = 0
  /\ c_batch = 0 /\ c_last_len = -1 /\ c_raised = FALSE
  /\ c_ret = 0 /\ c_first = 1

TrackOff ==
  /\ t_pc = "off" /\ previous_counts = EmptyMap /\ current_counts = <<>>
  /\ prev_before = EmptyMap /\ changes = EmptyMap /\ seen_numeric = EmptyMap

EngineOff ==
  /\ e_rep = 0 /\ e_fn = "none" /\ script = <<>> /\ script_pos = 1
  /\ e_first = [get |-> <<>>, count |-> 0] /\ sqs_ops = {}

MainOff ==
  /\ m_pc = "off" /\ m_mode = "none" /\ args_max_messages = 10 /\ m_i = 0
  /\ m_total = 0 /\ m_counts = EmptyMap /\ m_failed = {}

TimeOff ==
  /\ w_pc = "off" /\ sent_timestamp = PyNone /\ start_dt = PyNone
  /\ end_dt = PyNone /\ w_ret = FALSE

PollOff == p_pc = "off" /\ SAVE_TO_LOG = FALSE /\ now = 0 /\ last_save = 0

TeleOff ==
  /\ h_first = EmptyMap /\ h_sum = EmptyMap /\ h_last_cur = EmptyMap
  /\ h_prev_cur = EmptyMap

ExtOff == EngineOff /\ MainOff /\ TimeOff /\ PollOff /\ TeleOff

\* get_messages_from_queue on its own
InitRetriever ==
  RetrOff /\ FilterOff /\ ListerOff /\ RunOff /\ CmpOff /\ CountOff /\ TrackOff /\ ExtOff

NextRetriever ==
  \/ RetrieverCall /\ UNCHANGED <<filterVars, listerVars, runVars, cmpVars, countVars, trackVars, extVars>>
  \/ (\E n \in 1..SqsBatchMax : ReceiveMessages(n))
       /\ UNCHANGED <<filterVars, listerVars, runVars, cmpVars, countVars, trackVars, extVars>>
  \/ ReceiveEmpty /\ UNCHANGED <<filterVars, listerVars, runVars, cmpVars, countVars, trackVars, extVars>>
  \/ ReceiveRaises /\ UNCHANGED <<filterVars, listerVars, runVars, cmpVars, countVars, trackVars, extVars>>

SpecRetriever == InitRetriever /\ [][NextRetriever]_vars

\* every receive_message call returns: with messages, with none, or by
\* raising
ReceiveReturns ==
  RetrieverStep
    /\ UNCHANGED <<filterVars, listerVars, runVars, cmpVars, countVars,
                   trackVars, extVars>>

SpecRetrieverLive == SpecRetriever /\ WF_vars(ReceiveReturns)

\* a multi-queue run: the listing of list_dlq_items, or run() of
\* count_sqs_queue_itens
InitMulti ==
  /\ RetrOff /\ CmpOff /\ CountOff /\ TrackOff /\ ExtOff
  /\ f_pc = "off" /\ f_messages = <<>> /\ f_out = <<>>
  /\ f_trace = <<>>
  /\ \/ /\ filters \in {<<>>, <<EmptyDescriptionPred>>}
        /\ l_pc = "idle" /\ max_messages_per_queue = 10 /\ selected_queues = {}
        /\ selected_dlqs = <<>> /\ l_i = 0 /\ lister_all_messages = EmptyMap
        /\ filtered_results = EmptyMap /\ l_failed = {}
        /\ RunOff
     \/ /\ filters = <<>>
        /\ ListerOff
        /\ run_pc = "idle" /\ run_i = 0 /\ messages_per_queue = EmptyMap
        /\ run_failed = {}

NextMulti ==
  \/ (\E limit \in 0..MaxListLimit,
         selected \in SUBSET ({UnknownQueue} \cup (1..NumQueues)) :
           ListDlqItems(limit, selected))
       /\ UNCHANGED <<retrVars, filterVars, runVars, cmpVars, countVars, trackVars, extVars>>
  \/ ProcessQueueGet /\ UNCHANGED <<filterVars, runVars, cmpVars, countVars, trackVars, extVars>>
  \/ (\E n \in 1..SqsBatchMax : ReceiveMessages(n))
       /\ UNCHANGED <<filterVars, listerVars, runVars, cmpVars, countVars, trackVars, extVars>>
  \/ ReceiveEmpty /\ UNCHANGED <<filterVars, listerVars, runVars, cmpVars, countVars, trackVars, extVars>>
  \/ ReceiveRaises /\ UNCHANGED <<filterVars, listerVars, runVars, cmpVars, countVars, trackVars, extVars>>
  \/ ProcessQueueRest /\ UNCHANGED <<filterVars, runVars, cmpVars, countVars, trackVars, extVars>>
  \/ RunCall /\ UNCHANGED <<retrVars, filterVars, listerVars, cmpVars, countVars, trackVars, extVars>>
  \/ (\E count \in 0..MaxCount : RunQueueOk(count))
       /\ UNCHANGED <<retrVars, filterVars, listerVars, cmpVars, countVars, trackVars, extVars>>
  \/ RunQueueError /\ UNCHANGED <<retrVars, filterVars, listerVars, cmpVars, countVars, trackVars, extVars>>

SpecMulti == InitMulti /\ [][NextMulti]_vars

\* a FilterCriteria: add_filter calls, then apply_filters
InitFilter ==
  /\ RetrOff /\ ListerOff /\ RunOff /\ CmpOff /\ CountOff /\ TrackOff /\ ExtOff
  /\ filters = <<>> /\ f_pc = "idle" /\ f_messages = <<>> /\ f_out = <<>>
  /\ f_trace = <<>>

NextFilter ==
  \/ (\E pred \in FilterPreds : add_filter(pred))
       /\ UNCHANGED <<retrVars, listerVars, runVars, cmpVars, countVars, trackVars, extVars>>
  \/ (\E messages \in SeqsUpTo(FilterMsgs, MaxMsgs) : ApplyFilters(messages))
       /\ UNCHANGED <<retrVars, listerVars, runVars, cmpVars, countVars, trackVars, extVars>>

SpecFilter == InitFilter /\ [][NextFilter]_vars

\* _safe_compare_values on a pair of operands
InitCompare ==
  /\ RetrOff /\ FilterOff /\ ListerOff /\ RunOff /\ CountOff /\ TrackOff /\ ExtOff
  /\ cmp_pc = "idle" /\ value1 = PyNone /\ value2 = PyNone /\ cmp_ret = FALSE
  /\ cmp_raised = FALSE

NextCompare ==
  (\E v1 \in CmpValues, v2 \in CmpValues : SafeCompare(v1, v2))
    /\ UNCHANGED <<retrVars, filterVars, listerVars, runVars, countVars, trackVars, extVars>>

SpecCompare == InitCompare /\ [][NextCompare]_vars

\* count_messages_by_field on a queue of QueueLen messages
CountFieldValues == { PyStr(<<"F","A","I","L","E","D">>), PyStr(<<"y","e","s">>) }
CountLimits == {PyNone} \cup {PyInt(k) : k \in 0..MaxCountLimit}
retrNoId == <<g_pc, max_messages, all_messages, messages_received, batch_size,
              last_len, calls, first_short, g_raised, g_ret>>

InitCount ==
  /\ g_pc = "idle" /\ max_messages = 0 /\ all_messages = <<>>
  /\ messages_received = 0 /\ batch_size = 0 /\ last_len = -1 /\ calls = 0
  /\ first_short = 0 /\ g_raised = FALSE /\ g_ret = <<>>
  /\ FilterOff /\ ListerOff /\ RunOff /\ CmpOff /\ TrackOff /\ ExtOff
  /\ c_pc = "idle" /\ field_name = "status" /\ field_value = PyNone
  /\ c_max = PyNone /\ total_count = 0 /\ total_processed = 0
  /\ messages_with_json_errors = 0 /\ messages_without_field = 0
  /\ c_batch = 0 /\ c_last_len = -1 /\ c_raised = FALSE
  /\ c_ret = 0
  /\ c_first \in {1, 4}
  /\ next_id = c_first

NextCount ==
  \/ (\E value \in CountFieldValues, limit \in CountLimits :
        CountCall("status", value, limit))
       /\ UNCHANGED <<retrNoId, filterVars, listerVars, runVars, cmpVars, trackVars, extVars>>
  \/ (\E value \in CountFieldValues, limit \in CountLimits :
        CountCallUnknownQueue("status", value, limit))
       /\ UNCHANGED <<retrNoId, filterVars, listerVars, runVars, cmpVars, trackVars, extVars>>
  \/ (\E n \in 1..SqsBatchMax : CountReceive(n))
       /\ UNCHANGED <<retrNoId, filterVars, listerVars, runVars, cmpVars, trackVars, extVars>>
  \/ CountReceiveEmpty
       /\ UNCHANGED <<retrNoId, filterVars, listerVars, runVars, cmpVars, trackVars, extVars>>
  \/ CountReceiveRaises
       /\ UNCHANGED <<retrNoId, filterVars, listerVars, runVars, cmpVars, trackVars, extVars>>

SpecCount == InitCount /\ [][NextCount]_vars

(***************************************************************************)
(* QueueChangeTracker.detect_changes                                       *)
(***************************************************************************)

\* the queue names a snapshot can carry
TrackQueues == {"orders", "orders-dlq"}

\* what run() stores for a queue: int(messages), or the error text
TrackValues == {PyInt(k) : k \in 0..TrackMaxCount} \cup {ErrorSentinel}

\* a snapshot: the items of a dict, no queue name twice
Snapshots ==
  {cur \in SeqsUpTo([name : TrackQueues, count : TrackValues],
                    Cardinality(TrackQueues)) :
     \A i, j \in 1..Len(cur) : cur[i].name = cur[j].name => i = j}

\* an isinstance test that lets every entry through
IsInstanceIntAlways(current_count) == TRUE

\* isinstance(current_count, int): bool is a subclass of int
IsInstanceInt(current_count) == current_count.t \in {"int", "bool"}

\* a lookup that defaults to 0
PreviousCountDefaultZero(prev, queue_name) ==
  IF queue_name \in DOMAIN prev THEN prev[queue_name] ELSE PyInt(0)

\* self.previous_counts.get(queue_name, None)
PreviousCount(prev, queue_name) ==
  IF queue_name \in DOMAIN prev THEN prev[queue_name] ELSE PyNone

\* a first-observation test by falsiness
IsFirstObservationFalsy(previous_count) ==
  previous_count = PyNone \/ previous_count.n = 0

\* if previous_count is None
IsFirstObservation(previous_count) == previous_count = PyNone

\* an update that leaves the stored count alone
UpdatePreviousSkip(prev, queue_name, current_count) == prev

\* self.previous_counts[queue_name] = current_count, after the delta
UpdatePrevious(prev, queue_name, current_count) ==
  MapPut(prev, queue_name, current_count)

\* 'increase' if delta > 0 else 'decrease'
change_type(delta) == IF delta > 0 THEN "increase" ELSE "decrease"

\* an event whose delta is previous - current
ChangeEventSwapped(previous_count, current_count, delta) ==
  [previous_count |-> previous_count, current_count |-> current_count,
   delta |-> PyInt(0 - delta), change_type |-> change_type(delta)]

\* the dict stored in changes[queue_name]
ChangeEvent(previous_count, current_count, delta) ==
  [previous_count |-> previous_count, current_count |-> current_count,
   delta |-> PyInt(delta), change_type |-> change_type(delta)]

\* the body of the for loop for one item; st = [prev, changes]
DetectStep(st, queue_name, current_count) ==
  IF ~IsInstanceInt(current_count) THEN st
  ELSE LET previous_count == PreviousCount(st.prev, queue_name) IN
       IF IsFirstObservation(previous_count)
       THEN [st EXCEPT !.prev = MapPut(@, queue_name, current_count)]
       ELSE LET delta == current_count.n - previous_count.n IN
            [prev |-> UpdatePrevious(st.prev, queue_name, current_count),
             changes |-> IF delta # 0
                         THEN MapPut(st.changes, queue_name,
                                     ChangeEvent(previous_count, current_count,
                                                 delta))
                         ELSE st.changes]

RECURSIVE DetectLoopBreak(_, _, _)
\* a loop that stops at the first entry that is not an int
DetectLoopBreak(st, items, i) ==
  IF i > Len(items) \/ ~IsInstanceInt(items[i].count) THEN st
  ELSE DetectLoopBreak(DetectStep(st, items[i].name, items[i].count),
                       items, i + 1)

RECURSIVE DetectLoop(_, _, _)
\* for queue_name, current_count in current_counts.items()
DetectLoop(st, items, i) ==
  IF i > Len(items) THEN st
  ELSE DetectLoop(DetectStep(st, items[i].name, items[i].count), items, i + 1)

\* detect_changes with the loop that stops at an entry that is not an int
detect_changes_break(prev, items) ==
  DetectLoopBreak([prev |-> prev, changes |-> EmptyMap], items, 1)

\* detect_changes as a function of the stored map and the snapshot
detect_changes(prev, items) ==
  DetectLoop([prev |-> prev, changes |-> EmptyMap], items, 1)

\* the last int each queue was reported with, after one more snapshot
SeenAfter(seen, items) ==
  [q \in DOMAIN seen \cup
         {items[i].name : i \in {j \in 1..Len(items) : items[j].count.t = "int"}}
     |-> IF \E i \in 1..Len(items) :
              items[i].name = q /\ items[i].count.t = "int"
         THEN (CHOOSE it \in {items[i] : i \in 1..Len(items)} :
                 it.name = q).count
         ELSE seen[q]]

\* change_tracker.detect_changes(response)
DetectChanges(cur) ==
  /\ t_pc \in {"idle", "called"}
  /\ \E st \in { detect_changes(previous_counts, cur) } :
       /\ previous_counts' = st.prev
       /\ changes' = st.changes
  /\ prev_before' = previous_counts
  /\ current_counts' = cur
  /\ seen_numeric' = SeenAfter(seen_numeric, cur)
  /\ t_pc' = "called"

InitTracker ==
  /\ RetrOff /\ FilterOff /\ ListerOff /\ RunOff /\ CmpOff /\ CountOff
  /\ ExtOff
  /\ t_pc = "idle" /\ previous_counts = EmptyMap /\ current_counts = <<>>
  /\ prev_before = EmptyMap /\ changes = EmptyMap /\ seen_numeric = EmptyMap

NextTracker ==
  (\E cur \in Snapshots : DetectChanges(cur))
    /\ UNCHANGED <<retrVars, filterVars, listerVars, runVars, cmpVars, countVars, extVars>>

SpecTracker == InitTracker /\ [][NextTracker]_vars

(***************************************************************************)
(* One method of the lister called twice against a transport that gives    *)
(* the same answers both times.  An answer of script is the number of      *)
(* messages the queue has ready for a receive call, or ScriptRaise; once   *)
(* script is used up the queue answers with no messages.                   *)
(***************************************************************************)
ScriptRaise == -1
ScriptAnswers == {ScriptRaise, 0, 1, 2, SqsBatchMax}
EngineLimits == {0, 1, 3, 12}
EngineCountLimits == {PyNone, PyInt(0), PyInt(2), PyInt(12)}

\* the answer of the transport to the next receive call
Answer == IF script_pos <= Len(script) THEN script[script_pos] ELSE 0

\* self.sqs.receive_message(...): the one SQS operation of both methods
ReceiveOp == "receive_message"

\* get_messages_from_queue(queue_url, limit)
EngineGet(limit) ==
  /\ e_rep \in {1, 2} /\ g_pc = "idle" /\ c_pc = "idle"
  /\ IF e_rep = 1 THEN e_fn = "none" ELSE e_fn = "get" /\ limit = max_messages
  /\ GetMessagesEntry(limit)
  /\ e_fn' = "get"
  /\ UNCHANGED <<e_rep, script, script_pos, e_first, sqs_ops>>

\* one receive call of get_messages_from_queue, answered from script
EngineGetReceive ==
  /\ e_fn = "get" /\ g_pc = "loop"
  /\ LET n == Min(Answer, BatchSize(max_messages, messages_received))
     IN IF Answer = ScriptRaise THEN ReceiveRaises
        ELSE IF n = 0 THEN ReceiveEmpty
        ELSE ReceiveMessages(n)
  /\ script_pos' = script_pos + 1
  /\ sqs_ops' = sqs_ops \cup {ReceiveOp}
  /\ UNCHANGED <<e_rep, e_fn, script, e_first>>

\* count_messages_by_field(queue, "status", value, limit)
EngineCount(value, limit) ==
  /\ e_rep \in {1, 2} /\ g_pc = "idle" /\ c_pc = "idle"
  /\ IF e_rep = 1 THEN e_fn = "none"
     ELSE e_fn = "count" /\ value = field_value /\ limit = c_max
  /\ CountCall("status", value, limit)
  /\ e_fn' = "count"
  /\ UNCHANGED <<e_rep, script, script_pos, e_first, sqs_ops>>

\* one receive call of count_messages_by_field, answered from script
EngineCountReceive ==
  /\ e_fn = "count" /\ c_pc = "loop"
  /\ LET n == Min(Answer, CountBatchSize(c_max, total_processed))
     IN IF Answer = ScriptRaise THEN CountReceiveRaises
        ELSE IF n = 0 THEN CountReceiveEmpty
        ELSE CountReceive(n)
  /\ script_pos' = script_pos + 1
  /\ sqs_ops' = sqs_ops \cup {ReceiveOp}
  /\ UNCHANGED <<e_rep, e_fn, script, e_first>>

\* the first call has returned; the transport is set to give the same
\* answers, with the same messages, again
EngineRewind ==
  /\ e_rep = 1
  /\ \/ e_fn = "get" /\ g_pc = "done"
     \/ e_fn = "count" /\ c_pc = "done"
  /\ e_first' = [get |-> g_ret, count |-> c_ret]
  /\ e_rep' = 2
  /\ script_pos' = 1
  /\ next_id' = c_first
  /\ g_pc' = "idle" /\ c_pc' = "idle"
  /\ UNCHANGED <<e_fn, script, sqs_ops>>
  /\ UNCHANGED <<max_messages, all_messages, messages_received, batch_size,
                 last_len, calls, first_short, g_raised, g_ret>>
  /\ UNCHANGED <<field_name, field_value, c_max, total_count, total_processed,
                 messages_with_json_errors, messages_without_field, c_batch,
                 c_last_len, c_raised, c_ret, c_first>>

retrOfCount == <<g_pc, max_messages, all_messages, messages_received,
                 batch_size, last_len, calls, first_short, g_raised, g_ret>>
countOfRetr == <<c_pc, field_name, field_value, c_max, total_count,
                 total_processed, messages_with_json_errors,
                 messages_without_field, c_batch, c_last_len, c_raised,
                 c_ret, c_first>>

\* a lister with a filter chain, a selection and stored results
InitEngine ==
  /\ RetrOff /\ RunOff /\ CmpOff /\ TrackOff
  /\ filters \in {<<>>, <<EmptyDescriptionPred>>}
  /\ f_pc = "off" /\ f_messages = <<>> /\ f_out = <<>>
  /\ f_trace = <<>>
  /\ l_pc = "off" /\ max_messages_per_queue = 10 /\ selected_queues = {1}
  /\ selected_dlqs = <<>> /\ l_i = 0 /\ lister_all_messages = EmptyMap
  /\ filtered_results \in {EmptyMap, MapPut(EmptyMap, 1, <<>>)}
  /\ l_failed = {}
  /\ c_pc = "idle" /\ field_name = "status" /\ field_value = PyNone
  /\ c_max = PyNone /\ total_count = 0 /\ total_processed = 0
  /\ messages_with_json_errors = 0 /\ messages_without_field = 0
  /\ c_batch = 0 /\ c_last_len = -1 /\ c_raised = FALSE
  /\ c_ret = 0 /\ c_first = 1
  /\ e_rep = 1 /\ e_fn = "none"
  /\ script \in [1..ScriptLen -> ScriptAnswers]
  /\ script_pos = 1
  /\ e_first = [get |-> <<>>, count |-> 0] /\ sqs_ops = {}
  /\ MainOff /\ TimeOff /\ PollOff /\ TeleOff

NextEngine ==
  \/ (\E limit \in EngineLimits : EngineGet(limit))
       /\ UNCHANGED <<countVars, filterVars, listerVars, runVars, cmpVars, trackVars, mainVars, timeVars, pollVars, teleVars>>
  \/ EngineGetReceive
       /\ UNCHANGED <<countVars, filterVars, listerVars, runVars, cmpVars, trackVars, mainVars, timeVars, pollVars, teleVars>>
  \/ (\E value \in CountFieldValues, limit \in EngineCountLimits :
        EngineCount(value, limit))
       /\ UNCHANGED <<retrOfCount, filterVars, listerVars, runVars, cmpVars, trackVars, mainVars, timeVars, pollVars, teleVars>>
  \/ EngineCountReceive
       /\ UNCHANGED <<retrOfCount, filterVars, listerVars, runVars, cmpVars, trackVars, mainVars, timeVars, pollVars, teleVars>>
  \/ EngineRewind
       /\ UNCHANGED <<filterVars, listerVars, runVars, cmpVars, trackVars, mainVars, timeVars, pollVars, teleVars>>

SpecEngine == InitEngine /\ [][NextEngine]_vars

(***************************************************************************)
(* main() of list_dlq_items: the count mode over all DLQs and the listing  *)
(* mode, both given args.max_messages                                      *)
(***************************************************************************)
\* max_messages = None if args.max_messages == 0 else args.max_messages
CountModeLimit(arg) == IF arg = 0 THEN PyNone ELSE PyInt(arg)

\* max_messages = args.max_messages
ListModeLimit(arg) == arg

\* count mode without --queue, up to the for loop
MainCount(arg, value) ==
  /\ m_pc = "idle"
  /\ m_mode' = "count"
  /\ args_max_messages' = arg
  /\ field_value' = value
  /\ m_i' = 1
  /\ m_total' = 0
  /\ m_counts' = EmptyMap
  /\ m_failed' = {}
  /\ m_pc' = IF Len(dlq_list) = 0 THEN "done" ELSE "loop"
  /\ UNCHANGED <<c_pc, field_name, c_max, total_count, total_processed,
                 messages_with_json_errors, messages_without_field, c_batch,
                 c_last_len, c_raised, c_ret, c_first, next_id>>

\* count = lister.count_messages_by_field(queue_name, field, value, max_messages)
MainCountCall ==
  /\ m_pc = "loop"
  /\ CountCall("status", field_value, CountModeLimit(args_max_messages))
  /\ m_pc' = "count"
  /\ UNCHANGED <<m_mode, args_max_messages, m_i, m_total, m_counts, m_failed>>

\* a loop that stops at a queue whose count met a transport error
MainCountReturnAbort ==
  /\ m_pc = "count"
  /\ c_pc = "done"
  /\ m_total' = m_total + c_ret
  /\ m_counts' = MapPut(m_counts, dlq_list[m_i], c_ret)
  /\ m_failed' = IF c_raised THEN m_failed \cup {dlq_list[m_i]} ELSE m_failed
  /\ m_i' = m_i + 1
  /\ m_pc' = IF c_raised \/ m_i + 1 > Len(dlq_list) THEN "done" ELSE "loop"
  /\ c_pc' = "idle"
  /\ UNCHANGED <<m_mode, args_max_messages>>
  /\ UNCHANGED <<field_name, field_value, c_max, total_count, total_processed,
                 messages_with_json_errors, messages_without_field, c_batch,
                 c_last_len, c_raised, c_ret, c_first, next_id>>

\* total_count += count, and on to the next queue
MainCountReturn ==
  /\ m_pc = "count"
  /\ c_pc = "done"
  /\ m_total' = m_total + c_ret
  /\ m_counts' = MapPut(m_counts, dlq_list[m_i], c_ret)
  /\ m_failed' = IF c_raised THEN m_failed \cup {dlq_list[m_i]} ELSE m_failed
  /\ m_i' = m_i + 1
  /\ m_pc' = IF m_i + 1 > Len(dlq_list) THEN "done" ELSE "loop"
  /\ c_pc' = "idle"
  /\ UNCHANGED <<m_mode, args_max_messages>>
  /\ UNCHANGED <<field_name, field_value, c_max, total_count, total_processed,
                 messages_with_json_errors, messages_without_field, c_batch,
                 c_last_len, c_raised, c_ret, c_first, next_id>>

\* listing mode: lister.list_dlq_items_with_filters(max_messages, selected_queues)
MainList(arg, selected) ==
  /\ m_pc = "idle"
  /\ m_mode' = "list"
  /\ args_max_messages' = arg
  /\ ListDlqItems(ListModeLimit(arg), selected)
  /\ m_pc' = "listing"
  /\ UNCHANGED <<m_i, m_total, m_counts, m_failed>>

InitMain ==
  /\ g_pc = "idle" /\ max_messages = 0 /\ all_messages = <<>>
  /\ messages_received = 0 /\ batch_size = 0 /\ last_len = -1 /\ calls = 0
  /\ first_short = 0 /\ g_raised = FALSE /\ g_ret = <<>>
  /\ next_id = 1 + QueueLen - MainQueueLen
  /\ FilterOff /\ RunOff /\ CmpOff /\ TrackOff /\ EngineOff
  /\ l_pc = "idle" /\ max_messages_per_queue = 10 /\ selected_queues = {}
  /\ selected_dlqs = <<>> /\ l_i = 0 /\ lister_all_messages = EmptyMap
  /\ filtered_results = EmptyMap /\ l_failed = {}
  /\ c_pc = "idle" /\ field_name = "status" /\ field_value = PyNone
  /\ c_max = PyNone /\ total_count = 0 /\ total_processed = 0
  /\ messages_with_json_errors = 0 /\ messages_without_field = 0
  /\ c_batch = 0 /\ c_last_len = -1 /\ c_raised = FALSE
  /\ c_ret = 0 /\ c_first = 1
  /\ m_pc = "idle" /\ m_mode = "none" /\ args_max_messages = 10 /\ m_i = 0
  /\ m_total = 0 /\ m_counts = EmptyMap /\ m_failed = {}
  /\ TimeOff /\ PollOff /\ TeleOff

NextMain ==
  \/ (\E arg \in 0..MaxListLimit, value \in CountFieldValues :
        MainCount(arg, value))
       /\ UNCHANGED <<retrOfCount, filterVars, listerVars, runVars, cmpVars,
                      trackVars, engineVars, timeVars, pollVars, teleVars>>
  \/ MainCountCall
       /\ UNCHANGED <<retrOfCount, filterVars, listerVars, runVars, cmpVars,
                      trackVars, engineVars, timeVars, pollVars, teleVars>>
  \/ (\E n \in 1..SqsBatchMax : CountReceive(n))
       /\ UNCHANGED <<retrOfCount, filterVars, listerVars, runVars, cmpVars,
                      trackVars, extVars>>
  \/ CountReceiveEmpty
       /\ UNCHANGED <<retrOfCount, filterVars, listerVars, runVars, cmpVars,
                      trackVars, extVars>>
  \/ CountReceiveRaises
       /\ UNCHANGED <<retrOfCount, filterVars, listerVars, runVars, cmpVars,
                      trackVars, extVars>>
  \/ MainCountReturn
       /\ UNCHANGED <<retrOfCount, filterVars, listerVars, runVars, cmpVars,
                      trackVars, engineVars, timeVars, pollVars, teleVars>>
  \/ (\E arg \in 0..MaxListLimit, selected \in {{dlq_list[i] : i \in 1..Len(dlq_list)}} :
        MainList(arg, selected))
       /\ UNCHANGED <<retrVars, filterVars, runVars, cmpVars, countVars,
                      trackVars, engineVars, timeVars, pollVars, teleVars>>
  \/ ProcessQueueGet
       /\ UNCHANGED <<filterVars, runVars, cmpVars, countVars, trackVars, extVars>>
  \/ (\E n \in 1..SqsBatchMax : ReceiveMessages(n))
       /\ UNCHANGED <<filterVars, listerVars, runVars, cmpVars, countVars,
                      trackVars, extVars>>
  \/ ReceiveEmpty
       /\ UNCHANGED <<filterVars, listerVars, runVars, cmpVars, countVars,
                      trackVars, extVars>>
  \/ ReceiveRaises
       /\ UNCHANGED <<filterVars, listerVars, runVars, cmpVars, countVars,
                      trackVars, extVars>>
  \/ ProcessQueueRest
       /\ UNCHANGED <<filterVars, runVars, cmpVars, countVars, trackVars, extVars>>

SpecMain == InitMain /\ [][NextMain]_vars

\* time_period_filter on one message and one window
InitTime ==
  /\ RetrOff /\ FilterOff /\ ListerOff /\ RunOff /\ CmpOff /\ CountOff
  /\ TrackOff /\ EngineOff /\ MainOff
  /\ w_pc = "idle" /\ sent_timestamp = PyNone /\ start_dt = PyNone
  /\ end_dt = PyNone /\ w_ret = FALSE
  /\ PollOff /\ TeleOff

NextTime ==
  (\E ts \in SentTimestamps, start \in WindowBounds, end \in WindowBounds :
     TimePeriodFilter(ts, start, end))
    /\ UNCHANGED <<retrVars, filterVars, listerVars, runVars, cmpVars,
                   countVars, trackVars, engineVars, mainVars, pollVars, teleVars>>

SpecTime == InitTime /\ [][NextTime]_vars

(***************************************************************************)
(* The polling loop of count_sqs_queue_itens: run(), detect_changes, the   *)
(* conditional save, sleep(REFRESH_INTERVAL)                               *)
(***************************************************************************)
\* int(os.getenv("REFRESH_INTERVAL", 10))
REFRESH_INTERVAL == 10
\* int(os.getenv("LOG_INTERVAL_SECONDS", "60"))
LOG_INTERVAL_SECONDS == 60

\* the queues run() asks about, in the order of queue_url_list
PollQueues == <<"orders", "orders-dlq">>

\* what run() stores for one queue
PollValues == {PyInt(0), PyInt(1), ErrorSentinel}

\* the dict run() returns: one entry for every queue
PollResponses ==
  { [i \in 1..Len(PollQueues) |-> [name |-> PollQueues[i], count |-> v[i]]] :
      v \in [1..Len(PollQueues) -> PollValues] }

\* one iteration of "while True"
PollIteration(response) ==
  /\ p_pc = "running"
  /\ now < PollTicks * REFRESH_INTERVAL
  /\ DetectChanges(response)
  /\ last_save' = IF SAVE_TO_LOG /\ changes' # EmptyMap THEN now ELSE last_save
  /\ now' = now + REFRESH_INTERVAL
  /\ UNCHANGED <<p_pc, SAVE_TO_LOG>>

InitPoll ==
  /\ RetrOff /\ FilterOff /\ ListerOff /\ RunOff /\ CmpOff /\ CountOff
  /\ EngineOff /\ MainOff /\ TimeOff
  /\ t_pc = "idle" /\ previous_counts = EmptyMap /\ current_counts = <<>>
  /\ prev_before = EmptyMap /\ changes = EmptyMap /\ seen_numeric = EmptyMap
  /\ p_pc = "running" /\ SAVE_TO_LOG \in BOOLEAN /\ now = 0 /\ last_save = 0
  /\ TeleOff

NextPoll ==
  (\E response \in PollResponses : PollIteration(response))
    /\ UNCHANGED <<retrVars, filterVars, listerVars, runVars, cmpVars,
                   countVars, engineVars, mainVars, timeVars, teleVars>>

SpecPoll == InitPoll /\ [][NextPoll]_vars

(***************************************************************************)
(* One tracker fed a sequence of snapshots, with the history of the events *)
(* it emitted for each queue                                               *)
(***************************************************************************)
TeleQueues == <<"orders", "orders-dlq">>
TeleValues ==
  {PyInt(k) : k \in 0..TeleMaxCount} \cup {ErrorSentinel, Absent}

\* the items of a snapshot that gives queue i the value v[i], or no entry
SnapshotOf(v) ==
  LET F[k \in 0..Len(TeleQueues)] ==
        IF k = 0 THEN <<>>
        ELSE IF v[k] = Absent THEN F[k - 1]
        ELSE Append(F[k - 1], [name |-> TeleQueues[k], count |-> v[k]])
  IN F[Len(TeleQueues)]

\* queues the snapshot reports with an int
IntQueues(items) ==
  {items[i].name : i \in {j \in 1..Len(items) : items[j].count.t = "int"}}

\* the int the snapshot reports for q
IntOf(items, q) ==
  (CHOOSE it \in {items[i] : i \in 1..Len(items)} : it.name = q).count

\* changes = change_tracker.detect_changes(response), and what the events
\* of this call add to the history
TeleCall(cur) ==
  /\ DetectChanges(cur)
  /\ h_first' = [q \in DOMAIN h_first \cup IntQueues(cur) |->
                   IF q \in DOMAIN h_first THEN h_first[q] ELSE IntOf(cur, q)]
  /\ h_sum' = [q \in DOMAIN h_first \cup IntQueues(cur) |->
                 (IF q \in DOMAIN h_sum THEN h_sum[q] ELSE 0)
                 + (IF q \in DOMAIN changes' THEN changes'[q].delta.n ELSE 0)]
  /\ h_last_cur' = [q \in DOMAIN h_first \cup IntQueues(cur) |->
                      IF q \in DOMAIN changes' THEN changes'[q].current_count
                      ELSE IF q \in DOMAIN h_last_cur THEN h_last_cur[q]
                      ELSE IntOf(cur, q)]
  /\ h_prev_cur' = h_last_cur

InitTele ==
  /\ RetrOff /\ FilterOff /\ ListerOff /\ RunOff /\ CmpOff /\ CountOff
  /\ EngineOff /\ MainOff /\ TimeOff /\ PollOff
  /\ t_pc = "idle" /\ previous_counts = EmptyMap /\ current_counts = <<>>
  /\ prev_before = EmptyMap /\ changes = EmptyMap /\ seen_numeric = EmptyMap
  /\ h_first = EmptyMap /\ h_sum = EmptyMap /\ h_last_cur = EmptyMap
  /\ h_prev_cur = EmptyMap

NextTele ==
  (\E v \in [1..Len(TeleQueues) -> TeleValues] : TeleCall(SnapshotOf(v)))
    /\ UNCHANGED <<retrVars, filterVars, listerVars, runVars, cmpVars,
                   countVars, engineVars, mainVars, timeVars, pollVars>>

SpecTele == InitTele /\ [][NextTele]_vars

(***************************************************************************)
(* Properties                                                              *)
(***************************************************************************)
Range(f) == {f[i] : i \in DOMAIN f}

\* ceil(limit / 10)
CeilBatches(limit) == (limit + SqsBatchMax - 1) \div SqsBatchMax

RECURSIVE IsSubsequence(_, _)
IsSubsequence(a, b) ==
  IF a = <<>> THEN TRUE
  ELSE IF b = <<>> THEN FALSE
  ELSE IF Head(a) = Head(b) THEN IsSubsequence(Tail(a), Tail(b))
  ELSE IsSubsequence(a, Tail(b))

\* C1: when a receive call raises after earlier batches succeeded,
\* get_messages_from_queue returns the messages collected in those batches.
C1_FailureReturnsCollected ==
  (g_pc = "done" /\ g_raised /\ messages_received > 0) => g_ret = all_messages

\* C2 as stated, for positive limits: without a transport error, a limit of
\* at most 10 takes exactly one receive call, and a larger limit takes
\* ceil(limit/10) calls unless a call before the ceil(limit/10)-th returned
\* fewer messages than it requested.
C2_CallCountAsStated ==
  (g_pc = "done" /\ ~g_raised /\ max_messages >= 1) =>
    /\ max_messages <= SqsBatchMax => calls = 1
    /\ max_messages > SqsBatchMax =>
         \/ calls = CeilBatches(max_messages)
         \/ (first_short # 0 /\ first_short < CeilBatches(max_messages))

\* C2 amended: for every limit >= 1, when no call returns fewer messages
\* than it requested the call issues exactly ceil(limit/10) receive calls
\* (one for a limit of at most 10); any other number of calls follows a
\* short response; a limit of 0 issues no call.
C2_CallCount ==
  (g_pc = "done" /\ ~g_raised) =>
    /\ (max_messages >= 1 /\ first_short = 0) => calls = CeilBatches(max_messages)
    /\ (max_messages >= 1 /\ max_messages <= SqsBatchMax /\ first_short = 0)
         => calls = 1
    /\ max_messages = 0 => calls = 0

\* three full batches 10, 10, 1
C2_Witness ==
  /\ g_pc = "done" /\ ~g_raised /\ first_short = 0
  /\ max_messages = 21 /\ calls = 3

\* C3: every receive call requests min(10, limit - already retrieved), a
\* value in 1..10; the loop goes on exactly while fewer than limit messages
\* are retrieved and no response was empty; the returned list never holds
\* more than limit messages.
C3_BatchingBound ==
  /\ calls > 0 =>
       /\ batch_size \in 1..SqsBatchMax
       /\ batch_size = Min(SqsBatchMax,
                           max_messages - (messages_received
                                           - (IF last_len > 0 THEN last_len ELSE 0)))
  /\ g_pc = "loop" => (messages_received < max_messages /\ last_len # 0)
  /\ (g_pc = "done" /\ ~g_raised) =>
       (messages_received >= max_messages \/ last_len = 0)
  /\ Len(all_messages) = messages_received
  /\ messages_received <= max_messages
  /\ Len(g_ret) <= max_messages

\* a limit above 20 filled by three calls, the last one asking for the rest
C3_Witness ==
  /\ g_pc = "done" /\ ~g_raised /\ calls = 3 /\ batch_size = 1
  /\ max_messages = 21 /\ Len(g_ret) = 21

\* C4: a transport failure for one queue never aborts a multi-queue run:
\* the listing returns one entry for every selected configured queue, the
\* failed ones mapped to the empty list, and run() returns one entry for
\* every configured queue, the failed ones mapped to an error sentinel.
C4_NoAbort ==
  /\ l_pc = "done" =>
       /\ DOMAIN filtered_results =
            {dlq_list[i] : i \in 1..Len(dlq_list)} \cap selected_queues
       /\ \A q \in l_failed : filtered_results[q] = <<>>
  /\ l_pc \in {"loop", "get"} =>
       DOMAIN lister_all_messages = {selected_dlqs[i] : i \in 1..(l_i - 1)}
  /\ run_pc = "done" =>
       /\ DOMAIN messages_per_queue =
            {queue_url_list[i] : i \in 1..Len(queue_url_list)}
       /\ \A q \in DOMAIN messages_per_queue :
            IF q \in run_failed THEN messages_per_queue[q] = ErrorSentinel
                                ELSE messages_per_queue[q].t = "int"

\* an early queue failed after a first batch and a later one delivered
C4_Witness ==
  /\ l_pc = "done"
  /\ \E q \in l_failed, r \in DOMAIN filtered_results :
       q < r /\ filtered_results[r] # <<>>

\* C5: a message is in the output of apply_filters if and only if it is in
\* the input and every predicate of the chain returns true for it.
C5_AndSemantics ==
  f_pc = "applied" =>
    \A m \in FilterMsgs :
      m \in Range(f_out) <=>
        (m \in Range(f_messages)
           /\ \A i \in 1..Len(filters) : Evaluate(filters[i], m))

\* a chain of two predicates that agree on one message and differ on another
C5_Witness ==
  /\ f_pc = "applied" /\ Len(filters) = 2
  /\ f_out # <<>> /\ Len(f_out) < Len(f_messages)
  /\ \E m \in Range(f_messages) :
       Evaluate(filters[1], m) /\ ~Evaluate(filters[2], m)

\* C6: a chain with zero predicates returns its input list unchanged.
C6_Identity ==
  (f_pc = "applied" /\ filters = <<>>) => f_out = f_messages

C6_Witness ==
  f_pc = "applied" /\ filters = <<>> /\ Len(f_messages) = MaxMsgs

\* C7: the chain [P1, P2] yields the same list as the chain [P1] followed
\* by the chain [P2] on the survivors.
C7_Composition ==
  (f_pc = "applied" /\ Len(filters) = 2) =>
    f_out = apply_filters(<<filters[2]>>,
                          apply_filters(<<filters[1]>>, f_messages))

\* P1 lets a message through that P2 then rejects
C7_Witness ==
  /\ f_pc = "applied" /\ Len(filters) = 2 /\ f_out # <<>>
  /\ \E m \in Range(f_messages) :
       Evaluate(filters[1], m) /\ ~Evaluate(filters[2], m)
  /\ \E m \in Range(f_messages) : ~Evaluate(filters[1], m)

\* C8: the output of apply_filters is a subsequence of its input.
C8_Subsequence ==
  f_pc = "applied" => IsSubsequence(f_out, f_messages)

\* two different survivors out of three inputs
C8_Witness ==
  /\ f_pc = "applied" /\ filters # <<>>
  /\ Len(f_out) = 2 /\ f_out[1] # f_out[2] /\ Len(f_messages) = 3

\* C9 as stated: _safe_compare_values("true", "Yes") is false.
C9_TrueYesIsFalse ==
  (cmp_pc = "done" /\ value1 = PyStr(<<"t","r","u","e">>)
                   /\ value2 = PyStr(<<"Y","e","s">>)) => cmp_ret = FALSE

\* C9 amended: _safe_compare_values("true", "Yes") is true, "yes" being one
\* of the truthy keywords.
C9_TrueYesIsTrue ==
  (cmp_pc = "done" /\ value1 = PyStr(<<"t","r","u","e">>)
                   /\ value2 = PyStr(<<"Y","e","s">>)) => cmp_ret = TRUE

C9_Witness ==
  /\ cmp_pc = "done" /\ value1 = PyStr(<<"t","r","u","e">>)
  /\ value2 = PyStr(<<"Y","e","s">>)

\* C10: _safe_compare_values(None, None) is true, and with exactly one
\* operand None the result is false.
C10_NullRules ==
  cmp_pc = "done" =>
    /\ (value1 = PyNone /\ value2 = PyNone) => cmp_ret = TRUE
    /\ (value1 = PyNone /\ value2 # PyNone) => cmp_ret = FALSE
    /\ (value1 # PyNone /\ value2 = PyNone) => cmp_ret = FALSE

\* None against the text "None", which the later coercions would match
C10_Witness ==
  /\ cmp_pc = "done" /\ value1 = PyNone
  /\ value2 = PyStr(<<"N","o","n","e">>) /\ cmp_ret = FALSE

\* the trimmed text of an operand, case folded
FoldedText(v) == Lower(Strip(Str(v)))

\* both operands are numbers in text form, of equal value
NumericallyEqual(v1, v2) ==
  /\ ParseFloat(Strip(Str(v1))).ok
  /\ ParseFloat(Strip(Str(v2))).ok
  /\ FloatEq(ParseFloat(Strip(Str(v1))), ParseFloat(Strip(Str(v2))))

\* C11: two non-null operands compare equal whenever their stringified,
\* trimmed forms are equal ignoring case ("Failed" vs "FAILED", "1" vs 1), or
\* both parse as numbers of equal value ("1.0" vs 1).
C11_TolerantEquality ==
  /\ (cmp_pc = "done" /\ value1 # PyNone /\ value2 # PyNone
        /\ ~StrRaises(value1) /\ ~StrRaises(value2)
        /\ (FoldedText(value1) = FoldedText(value2)
              \/ NumericallyEqual(value1, value2)))
       => cmp_ret = TRUE
  /\ (cmp_pc = "done" /\ value1 = PyStr(<<"F","a","i","l","e","d">>)
        /\ value2 = PyStr(<<"F","A","I","L","E","D">>)) => cmp_ret = TRUE
  /\ (cmp_pc = "done" /\ value1 = PyStr(<<"1">>) /\ value2 = PyInt(1))
       => cmp_ret = TRUE
  /\ (cmp_pc = "done" /\ value1 = PyStr(<<"1",".","0">>) /\ value2 = PyInt(1))
       => cmp_ret = TRUE

\* "1.0" against 1: different texts, equal numbers
C11_Witness ==
  /\ cmp_pc = "done" /\ value1 = PyStr(<<"1",".","0">>) /\ value2 = PyInt(1)
  /\ FoldedText(value1) # FoldedText(value2) /\ cmp_ret = TRUE

\* C12: for every pair of operands _safe_compare_values returns a boolean
\* and lets no exception out; when the coercion of an operand raises, the
\* result is false.
C12_Total ==
  cmp_pc = "done" =>
    /\ cmp_ret \in BOOLEAN
    /\ cmp_raised = FALSE
    /\ BodyRaises(value1, value2) => cmp_ret = FALSE

\* an operand whose str() raises, against a text
C12_Witness ==
  /\ cmp_pc = "done" /\ value1 = PyBad /\ value2 = PyStr(<<"O","K">>)
  /\ cmp_ret = FALSE /\ cmp_raised = FALSE

\* the messages a count run has received so far
ProcessedIds == c_first..(next_id - 1)

\* the body is not valid JSON, or decodes to something that is not a mapping
IsJsonError(id) ==
  ~CountMessage(id).Body.valid \/ ~CountMessage(id).Body.val.isdict

\* the body is a mapping
IsMapping(id) ==
  CountMessage(id).Body.valid /\ CountMessage(id).Body.val.isdict

\* the body is a mapping without field_name
LacksField(id) ==
  IsMapping(id) /\ CountMessage(id).Body.val.d[field_name] = Absent

\* the body is a mapping whose field_name equals field_value ignoring case
MatchesIgnoringCase(id) ==
  /\ IsMapping(id)
  /\ CountMessage(id).Body.val.d[field_name] # Absent
  /\ FoldedText(CountMessage(id).Body.val.d[field_name]) = FoldedText(field_value)

\* C13: count_messages_by_field returns exactly the number of processed
\* messages whose body is a mapping with field_name equal to field_value
\* ignoring case; with 25 messages in batches of 10, 10, 5 and
\* max_messages = 25, four of them FAILED in some case and the others with
\* another status, it returns 4.
C13_MatchedCount ==
  /\ c_pc = "done" =>
       c_ret = Cardinality({id \in ProcessedIds : MatchesIgnoringCase(id)})
  /\ (c_pc = "done" /\ ~c_raised /\ c_first = 4 /\ c_max = PyInt(25)
        /\ total_processed = 25
        /\ field_value = PyStr(<<"F","A","I","L","E","D">>))
       => c_ret = 4

\* C14: at every point of a count run processed is the number of messages
\* received, json_errors the number of bodies that are not valid JSON or
\* not a mapping, missing_field the number of mappings without field_name,
\* and matched counts none of those: matched + json_errors + missing_field
\* <= processed.
C14_Accounting ==
  c_pc \in {"loop", "done"} =>
    /\ total_processed = Cardinality(ProcessedIds)
    /\ messages_with_json_errors =
         Cardinality({id \in ProcessedIds : IsJsonError(id)})
    /\ messages_without_field =
         Cardinality({id \in ProcessedIds : LacksField(id)})
    /\ total_count <=
         Cardinality({id \in ProcessedIds : IsMapping(id) /\ ~LacksField(id)})
    /\ total_count + messages_with_json_errors + messages_without_field
         <= total_processed

\* a run over bad JSON, a non-mapping, a mapping without the field and
\* mappings with it, some of which do not match
C14_Witness ==
  /\ c_pc = "done" /\ c_first = 1
  /\ messages_with_json_errors = 2 /\ messages_without_field = 1
  /\ total_count >= 1
  /\ total_count + messages_with_json_errors + messages_without_field
       < total_processed

\* C15: with a positive max_messages M the run never processes more than M
\* messages, asks for min(10, M - processed) per call and stops calling
\* once processed >= M; with max_messages None every call asks for 10 and
\* the run ends only on an empty response.
C15_StoppingRule ==
  /\ (c_max.t = "int" /\ c_max.n > 0 /\ c_pc \in {"loop", "done"}) =>
       /\ total_processed <= c_max.n
       /\ c_pc = "loop" => total_processed < c_max.n
       /\ c_batch # 0 =>
            c_batch = Min(SqsBatchMax,
                          c_max.n - (total_processed
                                     - (IF c_last_len > 0 THEN c_last_len ELSE 0)))
       /\ (c_pc = "done" /\ ~c_raised /\ c_batch # 0) =>
            (total_processed >= c_max.n \/ c_last_len = 0)
  /\ (c_max = PyNone /\ c_pc \in {"loop", "done"}) =>
       /\ c_batch # 0 => c_batch = SqsBatchMax
       /\ (c_pc = "done" /\ ~c_raised /\ c_batch # 0) => c_last_len = 0

\* 25 messages counted with max_messages = 25, the last call asking for 5
C15_Witness ==
  /\ c_pc = "done" /\ ~c_raised /\ c_max = PyInt(25)
  /\ total_processed = 25 /\ c_batch = 5 /\ c_last_len = 5

\* the snapshot of the last call has an entry for q
HasEntry(q) == \E i \in 1..Len(current_counts) : current_counts[i].name = q

\* that entry
Entry(q) ==
  current_counts[CHOOSE i \in 1..Len(current_counts) :
                   current_counts[i].name = q].count

\* the last call saw an int for q
NumericEntry(q) == t_pc = "called" /\ HasEntry(q) /\ Entry(q).t = "int"

\* the last call saw an error text for q
SentinelEntry(q) == t_pc = "called" /\ HasEntry(q) /\ Entry(q) = ErrorSentinel

\* C16: the first int detect_changes sees for a queue name, 0 included,
\* gives no change event for that queue and is stored, on the first call
\* and on a later call alike.
C16_FirstObservation ==
  \A q \in TrackQueues :
    (NumericEntry(q) /\ q \notin DOMAIN prev_before) =>
      /\ q \notin DOMAIN changes
      /\ q \in DOMAIN previous_counts
      /\ previous_counts[q] = Entry(q)

\* a queue first reported, with 0, on a call that found another queue
\* already tracked and changed
C16_Witness ==
  /\ NumericEntry("orders-dlq") /\ NumericEntry("orders")
  /\ DOMAIN prev_before = {"orders"}
  /\ Entry("orders-dlq") = PyInt(0)
  /\ previous_counts["orders-dlq"] = PyInt(0)
  /\ DOMAIN changes = {"orders"}

\* C17: for an int reported for a tracked queue there is an event if and
\* only if it differs from the stored count (a stored 0 included); the
\* event carries the count stored before the call, the current count,
\* delta = current - previous, and 'increase' exactly when delta > 0, else
\* 'decrease' (5 then 5: no event; 5 then 2: delta -3, 'decrease').
C17_EventRule ==
  \A q \in TrackQueues :
    (NumericEntry(q) /\ q \in DOMAIN prev_before) =>
      /\ q \in DOMAIN changes <=> Entry(q).n # prev_before[q].n
      /\ q \in DOMAIN changes =>
           /\ changes[q].previous_count = prev_before[q]
           /\ changes[q].current_count = Entry(q)
           /\ changes[q].delta = PyInt(Entry(q).n - prev_before[q].n)
           /\ changes[q].change_type = "increase"
                <=> Entry(q).n > prev_before[q].n
           /\ changes[q].change_type = "decrease"
                <=> Entry(q).n < prev_before[q].n
      /\ (prev_before[q] = PyInt(5) /\ Entry(q) = PyInt(5))
           => q \notin DOMAIN changes
      /\ (prev_before[q] = PyInt(5) /\ Entry(q) = PyInt(2)) =>
           /\ q \in DOMAIN changes
           /\ changes[q].delta = PyInt(-3)
           /\ changes[q].change_type = "decrease"

\* 5 then 2 for one queue, and a stored 0 then 1 for the other
C17_Witness ==
  /\ NumericEntry("orders-dlq") /\ NumericEntry("orders")
  /\ DOMAIN prev_before = TrackQueues
  /\ prev_before["orders-dlq"] = PyInt(5) /\ Entry("orders-dlq") = PyInt(2)
  /\ changes["orders-dlq"].delta = PyInt(-3)
  /\ changes["orders-dlq"].change_type = "decrease"
  /\ prev_before["orders"] = PyInt(0) /\ Entry("orders") = PyInt(1)
  /\ changes["orders"].change_type = "increase"

\* C18: after detect_changes(current) the stored count of every queue with
\* an int in current is that int, event or no event.
C18_StateUpdate ==
  \A q \in TrackQueues :
    NumericEntry(q) =>
      /\ q \in DOMAIN previous_counts
      /\ previous_counts[q] = Entry(q)

\* one tracked queue reported unchanged, the other changed
C18_Witness ==
  /\ NumericEntry("orders-dlq") /\ NumericEntry("orders")
  /\ DOMAIN prev_before = TrackQueues
  /\ prev_before["orders"] = Entry("orders")
  /\ prev_before["orders-dlq"] = PyInt(1) /\ Entry("orders-dlq") = PyInt(4)
  /\ DOMAIN changes = {"orders-dlq"}
  /\ previous_counts["orders-dlq"] = PyInt(4)
  /\ previous_counts["orders"] = Entry("orders")

\* C19: an entry that is not an int gives no event for its queue and
\* leaves what is stored for it as it was (unseen stays unseen, tracked
\* keeps its count), so that what is stored for a queue is always the last
\* int it was reported with.
C19_SentinelIgnored ==
  /\ \A q \in TrackQueues :
       SentinelEntry(q) =>
         /\ q \notin DOMAIN changes
         /\ q \in DOMAIN previous_counts <=> q \in DOMAIN prev_before
         /\ q \in DOMAIN prev_before => previous_counts[q] = prev_before[q]
  /\ previous_counts = seen_numeric

\* an error text for a tracked queue and for an unseen one
C19_Witness ==
  /\ SentinelEntry("orders-dlq") /\ SentinelEntry("orders")
  /\ DOMAIN prev_before = {"orders-dlq"}
  /\ prev_before["orders-dlq"] = PyInt(3)
  /\ previous_counts = prev_before
  /\ changes = EmptyMap

\* detect_changes on what is stored for q alone and q's entry alone
AloneOutcome(q) ==
  LET IsQ(it) == it.name = q IN
  detect_changes([x \in DOMAIN prev_before \cap {q} |-> prev_before[x]],
                 SelectSeq(current_counts, IsQ))

\* C20: the event for q and the new stored value of q depend only on q's
\* entry in the snapshot and on what was stored for q; a queue absent from
\* the snapshot gets no event and keeps its stored value, and no entry is
\* ever removed from the stored map.
C20_Independence ==
  t_pc = "called" =>
    /\ \A q \in TrackQueues :
         /\ q \in DOMAIN changes <=> q \in DOMAIN AloneOutcome(q).changes
         /\ q \in DOMAIN changes => changes[q] = AloneOutcome(q).changes[q]
         /\ q \in DOMAIN previous_counts <=> q \in DOMAIN AloneOutcome(q).prev
         /\ q \in DOMAIN previous_counts
              => previous_counts[q] = AloneOutcome(q).prev[q]
         /\ ~HasEntry(q) =>
              /\ q \notin DOMAIN changes
              /\ q \in DOMAIN previous_counts <=> q \in DOMAIN prev_before
              /\ q \in DOMAIN prev_before
                   => previous_counts[q] = prev_before[q]
    /\ DOMAIN prev_before \subseteq DOMAIN previous_counts

\* an error text ahead of a changed queue in one snapshot, and a tracked
\* queue absent from a later one
C20_Witness ==
  /\ t_pc = "called" /\ Len(current_counts) = 2
  /\ current_counts[1] = [name |-> "orders", count |-> ErrorSentinel]
  /\ current_counts[2].name = "orders-dlq"
  /\ DOMAIN prev_before = TrackQueues
  /\ DOMAIN changes = {"orders-dlq"}
  /\ previous_counts["orders"] = prev_before["orders"]

\* C21: get_messages_from_queue and count_messages_by_field issue only
\* receive calls and leave the lister's filter chain, selected queues,
\* per-queue limit and stored filtered results unchanged, and a call
\* repeated against the same transport answers returns what the first
\* call returned.
C21_ReadOnlyStateless ==
  /\ [](/\ sqs_ops \subseteq {"receive_message"}
        /\ (e_rep = 2 /\ e_fn = "get" /\ g_pc = "done")
             => g_ret = e_first.get
        /\ (e_rep = 2 /\ e_fn = "count" /\ c_pc = "done")
             => c_ret = e_first.count)
  /\ [][UNCHANGED <<filters, selected_queues, max_messages_per_queue,
                    filtered_results>>]_vars

\* a retrieval of three messages in two receive calls, done twice, on a
\* lister with a filter and stored results
C21_Witness ==
  /\ e_rep = 2 /\ e_fn = "get" /\ g_pc = "done" /\ ~g_raised
  /\ calls = 2 /\ Len(g_ret) = 3 /\ g_ret = e_first.get
  /\ filters # <<>> /\ filtered_results # EmptyMap
  /\ sqs_ops = {"receive_message"}

\* C22: with --max-messages 0 no cap is applied, in the listing mode as in
\* the count mode: a fetch that met no transport error ends only on an
\* empty batch.
C22_ZeroMeansNoLimit ==
  /\ (m_mode = "list" /\ args_max_messages = 0 /\ g_pc = "done" /\ ~g_raised)
       => last_len = 0
  /\ (m_mode = "count" /\ args_max_messages = 0 /\ c_pc = "done" /\ ~c_raised)
       => c_last_len = 0

\* the messages the current count call has processed
CallProcessedIds == (next_id - total_processed)..(next_id - 1)

\* the matches among them, by the comparator
CallMatches ==
  {id \in CallProcessedIds :
     /\ IsMapping(id)
     /\ ~LacksField(id)
     /\ _safe_compare_values(CountMessage(id).Body.val.d[field_name],
                             field_value)}

\* the sum of the counts of the first k queues of dlq_list
SumCounts(k) ==
  LET F[j \in 0..k] ==
        IF j = 0 THEN 0 ELSE F[j - 1] + m_counts[dlq_list[j]]
  IN F[k]

\* C27: when a receive call raises during count_messages_by_field the call
\* returns the number of matches counted in the batches processed before
\* the failure, and main's loop over the DLQs goes on: every queue gets a
\* count and the total is their sum.
C27_CountSurvivesFailure ==
  /\ (m_mode = "count" /\ c_pc = "done" /\ c_raised) =>
       /\ c_ret = total_count
       /\ c_ret = Cardinality(CallMatches)
  /\ (m_mode = "count" /\ m_pc \in {"loop", "count"}) =>
       DOMAIN m_counts = {dlq_list[i] : i \in 1..(m_i - 1)}
  /\ (m_mode = "count" /\ m_pc = "done") =>
       /\ DOMAIN m_counts = {dlq_list[i] : i \in 1..Len(dlq_list)}
       /\ m_total = SumCounts(Len(dlq_list))

\* the first queue failed after matches were counted, a later one was
\* counted too
C27_Witness ==
  /\ m_mode = "count" /\ m_pc = "done"
  /\ \E q \in m_failed, r \in DOMAIN m_counts :
       q < r /\ m_counts[q] >= 1 /\ m_counts[r] >= 1 /\ r \notin m_failed

\* C24: for each message apply_filters evaluates the predicates in the
\* order they were added, none after the first that returns false, and a
\* message that passes has had every predicate evaluated exactly once.
C24_ShortCircuit ==
  f_pc = "applied" =>
    \A k \in 1..Len(f_messages) :
      /\ Len(f_trace[k]) <= Len(filters)
      /\ \A j \in 1..Len(f_trace[k]) : f_trace[k][j] = j
      /\ \A j \in 1..(Len(f_trace[k]) - 1) : Evaluate(filters[j], f_messages[k])
      /\ (filters # <<>> /\ Len(f_trace[k]) < Len(filters))
           => ~Evaluate(filters[Len(f_trace[k])], f_messages[k])
      /\ (filters # <<>>
            /\ \A j \in 1..Len(filters) : Evaluate(filters[j], f_messages[k]))
           => Len(f_trace[k]) = Len(filters)

\* a chain of two predicates applied to a message that fails the first,
\* one that fails the second and one that passes both
C24_Witness ==
  /\ f_pc = "applied" /\ Len(filters) = 2 /\ Len(f_messages) = 3
  /\ f_trace[1] = <<1>>
  /\ f_trace[2] = <<1, 2>> /\ ~Evaluate(filters[2], f_messages[2])
  /\ f_trace[3] = <<1, 2>> /\ Evaluate(filters[2], f_messages[3])

\* the body of m is a mapping that has field with a value whose str() is
\* exactly value
FieldIs(m, field, value) ==
  /\ m.body.isdict
  /\ m.body.d[field] # Absent
  /\ Str(m.body.d[field]) = value

\* C25: custom-field(name, value) passes a message exactly when its body
\* is a mapping that contains name and str(body[name]) is exactly value;
\* a non-mapping body and a mapping without the field fail it for every
\* target value; field-equals(id) is the same over its five field names.
C25_FieldRequired ==
  f_pc = "applied" =>
    \A k \in 1..Len(f_messages), i \in 1..Len(filters) :
      /\ filters[i].kind = "custom_field" =>
           (Evaluate(filters[i], f_messages[k])
              <=> FieldIs(f_messages[k], filters[i].field, filters[i].value))
      /\ filters[i].kind = "specific_id" =>
           (Evaluate(filters[i], f_messages[k])
              <=> \E j \in 1..Len(IdFields) :
                    FieldIs(f_messages[k], IdFields[j], filters[i].value))

\* the text is an integer in decimal, blanks around it allowed
IsIntegerText(v) ==
  /\ v.t = "str"
  /\ \E lo \in 1..Len(v.s), hi \in 1..Len(v.s) :
       /\ lo <= hi
       /\ \A i \in 1..Len(v.s) :
            IF i \in lo..hi THEN IsDigit(v.s[i]) ELSE v.s[i] \in SpaceChars

IsTruthyKeyword(v) ==
  FoldedText(v) \in { <<"t","r","u","e">>, <<"1">>, <<"y","e","s">>,
                      <<"s","i","m">> }

\* C28: for two non-null operands whose trimmed texts differ ignoring case,
\* that are not numerically equal and neither of which is a truthy keyword
\* ("FAILED" vs "OK"), _safe_compare_values returns false.
C28_UnrelatedValuesDiffer ==
  (cmp_pc = "done" /\ value1 # PyNone /\ value2 # PyNone
     /\ ~StrRaises(value1) /\ ~StrRaises(value2)
     /\ FoldedText(value1) # FoldedText(value2)
     /\ ~NumericallyEqual(value1, value2)
     /\ ~IsTruthyKeyword(value1) /\ ~IsTruthyKeyword(value2))
    => cmp_ret = FALSE

\* C23: with SAVE_TO_LOG enabled the polling loop saves the snapshot to the
\* log file every LOG_INTERVAL_SECONDS, whether or not a count changed: no
\* more than LOG_INTERVAL_SECONDS and one refresh go by without a save.
C23_PeriodicSnapshot ==
  (p_pc = "running" /\ SAVE_TO_LOG) =>
    now - last_save <= LOG_INTERVAL_SECONDS + REFRESH_INTERVAL

\* C29: for each queue the delta fields of all events emitted for it sum
\* to its most recent int minus its first int, and the previous_count of
\* each event is the current_count of the queue's previous event, or the
\* first stored count when there was none.
C29_DeltasTelescope ==
  /\ DOMAIN h_sum = DOMAIN seen_numeric
  /\ \A q \in DOMAIN h_sum :
       h_sum[q] = seen_numeric[q].n - h_first[q].n
  /\ t_pc = "called" =>
       \A q \in DOMAIN changes :
         /\ q \in DOMAIN h_prev_cur
         /\ changes[q].previous_count = h_prev_cur[q]

\* a queue that went 0, 3, error, 1: events +3 and -2, the second one
\* starting from the 3 of the first
C29_Witness ==
  /\ t_pc = "called" /\ "orders" \in DOMAIN changes
  /\ h_first["orders"] = PyInt(0) /\ h_prev_cur["orders"] = PyInt(3)
  /\ changes["orders"].delta = PyInt(-2)
  /\ h_sum["orders"] = 1 /\ seen_numeric["orders"] = PyInt(1)

\* C30: for every positive limit, when every receive call returns,
\* get_messages_from_queue terminates; it makes at most limit calls that
\* return messages and at most one that returns none, and the retrieved
\* count grows with every non-empty batch.
C30_RetrievalTerminates ==
  /\ (g_pc = "loop") ~> (g_pc = "done")
  /\ [](/\ messages_received <= max_messages
        /\ g_pc = "loop" => calls <= messages_received
        /\ calls <= messages_received + 1
        /\ calls <= max_messages + 1)
  /\ [][(calls' = calls + 1 /\ last_len' > 0)
          => messages_received' > messages_received]_vars

\* the limit reached one message at a time, in as many calls as the limit
C30_Witness ==
  /\ g_pc = "done" /\ ~g_raised /\ max_messages = 3 /\ calls = 3
  /\ messages_received = 3 /\ last_len = 1

====
